---- MODULE Spec2Model ----
(***************************************************************************)
(* WSTF file format codec (src/src/protocol/file_format.rs) and the record *)
(* codec (src/src/update.rs), modelled at byte level.                      *)
(*                                                                         *)
(* A file is a sequence of bytes (0..255); reader positions are 0-based    *)
(* byte offsets, as in the Rust code.  Unsigned integers are written and   *)
(* read big-endian.  f32 fields are carried as their 32-bit patterns.      *)
(* All values of the model stay below 2^31, so u64/u32 wrap-around of      *)
(* ts/seq themselves is outside the model.                                 *)
(*                                                                         *)
(* The client's CircularQueue and CxnPool (src/packages/wstf_database) are *)
(* modelled next to it, each with a specification of its own, and so are   *)
(* Events::from, the time-axis Histogram, the raw insert message,          *)
(* RebinnedOrderbook::from and Cxn::cmd: arg holds the arguments of the    *)
(* function being run and st its locals and result.                        *)
(***************************************************************************)
EXTENDS Integers, Sequences, FiniteSets, TLC

VARIABLES
    exists,   \* the file is present at the path
    file,     \* its bytes
    op,       \* the latest call and its arguments
    ret,      \* what that call returned
    enc,      \* the symbol and vector handed to the latest encode
    napp,     \* appends since then that wrote to the file
    before,   \* the bytes an append or an encode of no updates found (else empty)
    rdr,      \* the open WSTFBufReader, if any, and the chunks it has yielded
    queue,    \* a CircularQueue
    calls,    \* the push, pop and clear calls made on it since its construction
    qret,     \* the latest call on it and what that call returned
    pool,     \* a CxnPool, with the connections it holds and its retry queue
    pret,     \* the latest call on it, what the server answered, what it returned
    arg,      \* the arguments of a function of the library that is being run
    st        \* how far it has run: its locals, and its result once it is done

file_vars == <<exists, file, op, ret, enc, napp, before, rdr>>
queue_vars == <<queue, calls, qret>>
pool_vars == <<pool, pret>>
fn_vars == <<arg, st>>
vars == <<exists, file, op, ret, enc, napp, before, rdr, queue, calls, qret, pool, pret,
          arg, st>>

(***************************************************************************)
(* Program constants                                                       *)
(***************************************************************************)
SYMBOL_LEN    == 20
SYMBOL_OFFSET == 5
LEN_OFFSET    == 25
MAX_TS_OFFSET == 33
MAIN_OFFSET   == 80
MAGIC_VALUE   == <<87, 83, 84, 70, 1>>     \* 0x57 0x53 0x54 0x46 0x01
TS_DELTA_LIMIT  == 65535                   \* 0xFFFF in write_batches
SEQ_DELTA_LIMIT == 15                      \* 0xF in write_batches
COUNT_LIMIT   == 65535                     \* 0xFFFF, u16 saturation of count
U16           == 65536                     \* 2^16, width of the batch count
FLAG_IS_BID   == 1
FLAG_IS_TRADE == 2
RECORD_BYTES  == 12
BATCH_META_BYTES == 14

(***************************************************************************)
(* Bounds of the model and the inputs the calls draw from                  *)
(***************************************************************************)
MaxLen      == 2      \* longest update vector handed to encode / append
MaxRecords  == 3      \* appends stop once the header counts this many records
MaxBatchArg == 2      \* largest batch limit handed to decode / WSTFBufReader
MaxCap      == 3      \* largest capacity of a CircularQueue
MaxCalls    == 7      \* most push, pop and clear calls made on one CircularQueue
MaxWorkers  == 2      \* most connections a CxnPool is created with
MaxPoolCap  == 2      \* largest capacity of a CxnPool's retry queue
MaxPoolCalls == 5     \* most calls made on one CxnPool
MaxReplies  == 2      \* most answers of the server that are not a plain Ok, per call
MaxRetries  == 3      \* deepest nesting of retries followed within one insert
FaultyCalls == 2      \* the calls of a CxnPool during which the server may fail at will

\* (ts, seq) of the input updates: a shared batch (1 and 3), a ts rollover
\* (65537 >= 1 + 0xFFFF) and none (65537 < 3 + 0xFFFF), a seq rollover under an
\* equal ts (15 >= 0 + 0xF)
Keys == { <<1, 0>>, <<1, 15>>, <<3, 0>>, <<65537, 0>> }
RangeVals == {0, 1, 2, 3, 65537, 65538}
ShortSymbol == <<66, 84, 67>>
FullSymbol  == <<88, 88, 88, 88, 88, 88, 88, 88, 88, 88,
                 88, 88, 88, 88, 88, 88, 88, 88, 88, 88>>
LongSymbol  == <<88, 88, 88, 88, 88, 88, 88, 88, 88, 88,
                 88, 88, 88, 88, 88, 88, 88, 88, 88, 88, 88>>

Update(ts, seq, is_trade, is_bid, price, size) ==
    [ts |-> ts, seq |-> seq, is_trade |-> is_trade, is_bid |-> is_bid,
     price |-> price, size |-> size]

\* the flags and the f32 bit patterns an input update carries: the four
\* flag combinations are spread over the keys
PayloadOf(ts, seq) ==
    LET k == (ts + 2 * (seq \div 15)) % 4
    IN CASE k = 0 -> <<FALSE, FALSE, 0, 0>>
         [] k = 1 -> <<FALSE, TRUE, 1065353216, 1073741824>>
         [] k = 2 -> <<TRUE, FALSE, 1084227584, 1065353216>>
         [] OTHER -> <<TRUE, TRUE, 1073741824, 1084227584>>

Updates ==
    { Update(k[1], k[2], PayloadOf(k[1], k[2])[1], PayloadOf(k[1], k[2])[2],
             PayloadOf(k[1], k[2])[3], PayloadOf(k[1], k[2])[4]) : k \in Keys }

\* Update::partial_cmp: order by ts, ties by seq
UpdateLe(a, b) == a.ts < b.ts \/ (a.ts = b.ts /\ a.seq <= b.seq)

IsSorted(v) == \A i \in 1..(Len(v) - 1) : UpdateLe(v[i], v[i + 1])

RECURSIVE VecsOfLen(_)
VecsOfLen(n) ==
    IF n = 0 THEN { <<>> }
    ELSE { Append(v, u) : v \in VecsOfLen(n - 1), u \in Updates }

Vecs == UNION { VecsOfLen(n) : n \in 0..MaxLen }

SortedVecs == { v \in Vecs : IsSorted(v) }

(***************************************************************************)
(* Bytes                                                                   *)
(***************************************************************************)
RECURSIVE BE(_, _)
\* write_uN::<BigEndian>: n as w bytes
BE(n, w) == IF w = 0 THEN <<>> ELSE Append(BE(n \div 256, w - 1), n % 256)

RECURSIVE FromBE(_)
\* read_uN::<BigEndian>
FromBE(s) ==
    IF s = <<>> THEN 0
    ELSE FromBE(SubSeq(s, 1, Len(s) - 1)) * 256 + s[Len(s)]

\* the len bytes at 0-based offset pos
Slice(f, pos, len) == SubSeq(f, pos + 1, pos + len)

Avail(f, pos) == IF pos >= Len(f) THEN 0 ELSE Len(f) - pos

RECURSIVE Zeros(_)
Zeros(n) == IF n <= 0 THEN <<>> ELSE <<0>> \o Zeros(n - 1)

\* seek to off and write: overwrites, extends, zero-fills a hole
WriteAt(f, off, bytes) ==
    LET end  == off + Len(bytes)
        keep == IF off < Len(f) THEN off ELSE Len(f)
    IN SubSeq(f, 1, keep) \o Zeros(off - Len(f)) \o bytes
         \o SubSeq(f, end + 1, Len(f))

RECURSIVE Spaces(_)
Spaces(n) == IF n <= 0 THEN <<>> ELSE <<32>> \o Spaces(n - 1)

(***************************************************************************)
(* Record codec (update.rs)                                                *)
(***************************************************************************)
FlagBits(u) ==
    (IF u.is_bid THEN FLAG_IS_BID ELSE 0) + (IF u.is_trade THEN FLAG_IS_TRADE ELSE 0)

\* a variant that writes the seq itself where the seq delta belongs
SerializeAbsoluteSeq(u, ref_ts, ref_seq) ==
    BE((u.ts - ref_ts) % 65536, 2) \o BE(u.seq % 256, 1)
      \o <<FlagBits(u)>> \o BE(u.price, 4) \o BE(u.size, 4)

\* Update::serialize_to_buffer, the bytes written (u16 / u8 casts truncate)
serialize_to_buffer(u, ref_ts, ref_seq) ==
    BE((u.ts - ref_ts) % 65536, 2) \o BE((u.seq - ref_seq) % 256, 1)
      \o <<FlagBits(u)>> \o BE(u.price, 4) \o BE(u.size, 4)

\* the contract violation check at the head of serialize_to_buffer
SerializePanics(u, ref_seq) == u.seq < ref_seq

\* Flags::from_bits: None when an unknown bit is set
FlagsValid(b) == b \in 0..3

\* (flags & FLAG).to_bool(): true iff exactly that one bit remains
FlagToBool(b, flag) ==
    LET masked == IF (b \div flag) % 2 = 1 THEN flag ELSE 0
    IN masked = 1 \/ masked = 2

(***************************************************************************)
(* Results                                                                 *)
(***************************************************************************)
NoMeta == [symbol |-> <<>>, nums |-> 0, max_ts |-> 0, min_ts |-> 0]

Ok(ups)   == [kind |-> "Ok",    err |-> "",  ups |-> ups,  meta |-> NoMeta]
Err(e)    == [kind |-> "Err",   err |-> e,   ups |-> <<>>, meta |-> NoMeta]
Panic(e)  == [kind |-> "Panic", err |-> e,   ups |-> <<>>, meta |-> NoMeta]
NoneRet   == [kind |-> "None",  err |-> "",  ups |-> <<>>, meta |-> NoMeta]
SomeRet(ups) == [kind |-> "Some", err |-> "", ups |-> ups, meta |-> NoMeta]
OkMeta(m) == [kind |-> "Ok",    err |-> "",  ups |-> <<>>, meta |-> m]

NoLimit == [some |-> FALSE, n |-> 0]
Some(n) == [some |-> TRUE, n |-> n]

Call(name, symbol, ups, min_ts, max_ts, limit) ==
    [name |-> name, symbol |-> symbol, ups |-> ups,
     min_ts |-> min_ts, max_ts |-> max_ts, limit |-> limit]

\* no WSTFBufReader; got is the sequence of chunks an open one has yielded
NoReader == [open |-> FALSE, pos |-> 0, batch_size |-> 0, got |-> <<>>]

(***************************************************************************)
(* Writer (file_format.rs)                                                 *)
(***************************************************************************)
\* write_reference: marker, ref_ts, ref_seq, count
write_reference(ref_ts, ref_seq, len) ==
    <<1>> \o BE(ref_ts, 8) \o BE(ref_seq, 4) \o BE(len, 2)

\* a variant without the test for a ts below ref_ts
RolloverForward(elem, ref_ts, ref_seq, count) ==
    count # 0
    /\ (\/ elem.ts >= ref_ts + TS_DELTA_LIMIT
        \/ elem.seq >= ref_seq + SEQ_DELTA_LIMIT
        \/ elem.seq < ref_seq
        \/ count = COUNT_LIMIT)

\* the rollover test of write_batches
Rollover(elem, ref_ts, ref_seq, count) ==
    count # 0
    /\ (\/ elem.ts >= ref_ts + TS_DELTA_LIMIT
        \/ elem.seq >= ref_seq + SEQ_DELTA_LIMIT
        \/ elem.seq < ref_seq
        \/ elem.ts < ref_ts
        \/ count = COUNT_LIMIT)

\* The batch that starts at element i (ref_ts, ref_seq taken from it) runs up
\* to the element before the first later one for which the rollover test
\* fires; count at element k of that batch is k - i.
BatchEnd(ups, i) ==
    LET last  == IF Len(ups) < i + COUNT_LIMIT THEN Len(ups) ELSE i + COUNT_LIMIT
        fires == { k \in (i + 1)..last :
                     Rollover(ups[k], ups[i].ts, ups[i].seq, k - i) }
    IN IF fires = {} THEN last
       ELSE (CHOOSE k \in fires : \A m \in fires : k <= m) - 1

RECURSIVE SerializeRun(_, _, _, _, _)
\* the scratch buffer after serialize_to_buffer of ups[lo..hi] in order
SerializeRun(ups, lo, hi, ref_ts, ref_seq) ==
    IF lo > hi THEN <<>>
    ELSE IF lo = hi THEN serialize_to_buffer(ups[lo], ref_ts, ref_seq)
    ELSE LET mid == (lo + hi) \div 2
         IN SerializeRun(ups, lo, mid, ref_ts, ref_seq)
              \o SerializeRun(ups, mid + 1, hi, ref_ts, ref_seq)

RECURSIVE BatchLoop(_, _, _)
\* the for loop of write_batches from element i on, one batch per step; out
\* is what the sink has received
BatchLoop(ups, i, out) ==
    IF i > Len(ups) THEN [out |-> out, panic |-> FALSE]
    ELSE LET j == BatchEnd(ups, i)
             ref_ts  == ups[i].ts
             ref_seq == ups[i].seq
         IN IF \E k \in i..j : SerializePanics(ups[k], ref_seq)
            THEN [out |-> out, panic |-> TRUE]
            ELSE BatchLoop(ups, j + 1,
                           out \o write_reference(ref_ts, ref_seq, j - i + 1)
                               \o SerializeRun(ups, i, j, ref_ts, ref_seq))

\* write_batches: the bytes handed to the sink
write_batches(ups) ==
    IF ups = <<>> THEN [out |-> <<>>, panic |-> TRUE]    \* ups.peek().unwrap()
    ELSE BatchLoop(ups, 1, <<>>)

\* write_symbol: the symbol space-padded on the right to SYMBOL_LEN
PaddedSymbol(symbol) == symbol \o Spaces(SYMBOL_LEN - Len(symbol))

\* a variant that takes the first element's ts
GetFirstTs(ups) == ups[1].ts

\* get_max_ts_sorted
get_max_ts_sorted(ups) == ups[Len(ups)].ts

\* encode on a freshly created (truncated) file: the file left behind and the
\* result.  An early return drops the BufWriter, which flushes what was
\* written so far.
encode(symbol, ups) ==
    IF ups = <<>> THEN [file |-> <<>>, ret |-> Ok(<<>>)]
    ELSE IF Len(symbol) > SYMBOL_LEN
    THEN [file |-> MAGIC_VALUE, ret |-> Err("InvalidData")]
    ELSE LET f1 == MAGIC_VALUE \o PaddedSymbol(symbol)
             f2 == WriteAt(f1, LEN_OFFSET, BE(Len(ups), 8))
             f3 == WriteAt(f2, MAX_TS_OFFSET, BE(get_max_ts_sorted(ups), 8))
             wb == write_batches(ups)
             f4 == WriteAt(f3, MAIN_OFFSET, wb.out)
         IN [file |-> f4,
             ret |-> IF wb.panic THEN Panic("serialize") ELSE Ok(<<>>)]

(***************************************************************************)
(* Reader (file_format.rs)                                                 *)
(***************************************************************************)
\* file_reader: File::open, then read_magic_value
file_reader(ex, f) ==
    IF ~ex THEN Err("NotFound")
    ELSE IF Len(f) < 5 THEN Err("UnexpectedEof")
    ELSE IF Slice(f, 0, 5) # MAGIC_VALUE THEN Panic("MAGIC VALUE INCORRECT")
    ELSE Ok(<<>>)

IsWhite(b) == b = 32 \/ b \in 9..13

RECURSIVE TrimLeft(_)
TrimLeft(s) == IF s # <<>> /\ IsWhite(s[1]) THEN TrimLeft(Tail(s)) ELSE s

RECURSIVE TrimRight(_)
TrimRight(s) ==
    IF s # <<>> /\ IsWhite(s[Len(s)])
    THEN TrimRight(SubSeq(s, 1, Len(s) - 1)) ELSE s

\* str::trim
Trim(s) == TrimLeft(TrimRight(s))

\* read_one_update at pos with the batch's reference values
read_one_update(f, pos, ref_ts, ref_seq) ==
    IF Avail(f, pos) < 4 THEN Err("UnexpectedEof")
    ELSE LET flags == f[pos + 4]
         IN IF ~FlagsValid(flags) THEN Err("InvalidData")
            ELSE IF Avail(f, pos) < RECORD_BYTES THEN Err("UnexpectedEof")
            ELSE Ok(<< [ts       |-> FromBE(Slice(f, pos, 2)) + ref_ts,
                        seq      |-> FromBE(Slice(f, pos + 2, 1)) + ref_seq,
                        is_trade |-> FlagToBool(flags, FLAG_IS_TRADE),
                        is_bid   |-> FlagToBool(flags, FLAG_IS_BID),
                        price    |-> FromBE(Slice(f, pos + 4, 4)),
                        size     |-> FromBE(Slice(f, pos + 8, 4))] >>)

\* read_one_batch_main: count records from pos on; the first failing record
\* ends the read with its error; the result carries the position reached
read_one_batch_main(f, pos, ref_ts, ref_seq, count) ==
    LET at(k) == pos + RECORD_BYTES * (k - 1)
        bad   == { k \in 1..count :
                     read_one_update(f, at(k), ref_ts, ref_seq).kind # "Ok" }
    IN IF bad # {}
       THEN LET k == CHOOSE k \in bad : \A m \in bad : k <= m
            IN [res |-> read_one_update(f, at(k), ref_ts, ref_seq), pos |-> at(k)]
       ELSE [res |-> Ok([k \in 1..count |->
                           read_one_update(f, at(k), ref_ts, ref_seq).ups[1]]),
             pos |-> pos + RECORD_BYTES * count]

\* read_one_batch_meta at pos (after the marker); unwrap panics on a short read
MetaPanics(f, pos) == Avail(f, pos) < BATCH_META_BYTES

read_one_batch_meta(f, pos) ==
    [ref_ts  |-> FromBE(Slice(f, pos, 8)),
     ref_seq |-> FromBE(Slice(f, pos + 8, 4)),
     count   |-> FromBE(Slice(f, pos + 12, 2))]

\* read_one_batch at pos (on the marker)
read_one_batch(f, pos) ==
    IF Avail(f, pos) < 1 THEN [res |-> Err("UnexpectedEof"), pos |-> pos]
    ELSE IF f[pos + 1] # 1 THEN [res |-> Ok(<<>>), pos |-> pos + 1]
    ELSE IF MetaPanics(f, pos + 1) THEN [res |-> Panic("unwrap"), pos |-> pos + 1]
    ELSE LET meta == read_one_batch_meta(f, pos + 1)
         IN read_one_batch_main(f, pos + 1 + BATCH_META_BYTES,
                                meta.ref_ts, meta.ref_seq, meta.count)

RECURSIVE read_all(_, _, _)
\* read_all from pos
read_all(f, pos, v) ==
    IF Avail(f, pos) < 1 THEN Ok(v)
    ELSE IF f[pos + 1] = 1
    THEN LET b == read_one_batch(f, pos)
         IN IF b.res.kind # "Ok" THEN b.res
            ELSE read_all(f, b.pos, v \o b.res.ups)
    ELSE read_all(f, pos + 1, v)

\* the break test of read_n_batches, after count += 1
EnoughBatches(count, num_rows) == count > num_rows

RECURSIVE ReadNLoopStale(_, _, _, _, _)
\* a variant that leaves the reader where the last batch of the chunk began
ReadNLoopStale(f, pos, num_rows, count, v) ==
    IF Avail(f, pos) < 1 THEN [res |-> Ok(v), pos |-> pos]
    ELSE LET isref == f[pos + 1] = 1
             b     == read_one_batch(f, pos)
             pos2  == IF isref THEN b.pos ELSE pos + 1
             v2    == IF isref THEN v \o b.res.ups ELSE v
         IN IF isref /\ b.res.kind # "Ok" THEN b
            ELSE IF EnoughBatches(count + 1, num_rows)
            THEN [res |-> Ok(v2), pos |-> pos]
            ELSE ReadNLoopStale(f, pos2, num_rows, count + 1, v2)

RECURSIVE ReadNLoop(_, _, _, _, _)
\* the while loop of read_n_batches
ReadNLoop(f, pos, num_rows, count, v) ==
    IF Avail(f, pos) < 1 THEN [res |-> Ok(v), pos |-> pos]
    ELSE LET isref == f[pos + 1] = 1
             b     == read_one_batch(f, pos)
             pos2  == IF isref THEN b.pos ELSE pos + 1
             v2    == IF isref THEN v \o b.res.ups ELSE v
         IN IF isref /\ b.res.kind # "Ok" THEN b
            ELSE IF EnoughBatches(count + 1, num_rows)
            THEN [res |-> Ok(v2), pos |-> pos2]
            ELSE ReadNLoop(f, pos2, num_rows, count + 1, v2)

read_n_batches(f, pos, num_rows) ==
    IF num_rows = 0 THEN [res |-> Ok(<<>>), pos |-> pos]
    ELSE ReadNLoop(f, pos, num_rows, 0, <<>>)

\* decode(fname, num_rows)
decode(ex, f, limit) ==
    LET r == file_reader(ex, f)
    IN IF r.kind # "Ok" THEN r
       ELSE IF limit.some THEN read_n_batches(f, MAIN_OFFSET, limit.n).res
       ELSE read_all(f, MAIN_OFFSET, <<>>)

\* the test without its third alternative (a window strictly inside the batch)
InRangeOverlap(min_ts, max_ts, current_ref_ts, next_ref_ts) ==
    \/ (min_ts <= current_ref_ts /\ max_ts <= next_ref_ts)
    \/ (min_ts < next_ref_ts /\ max_ts >= next_ref_ts)

\* the three-way "materialize the current batch" test of range
InRangeCase(min_ts, max_ts, current_ref_ts, next_ref_ts) ==
    \/ (min_ts <= current_ref_ts /\ max_ts <= next_ref_ts)
    \/ (min_ts < next_ref_ts /\ max_ts >= next_ref_ts)
    \/ (min_ts > current_ref_ts /\ max_ts < next_ref_ts)

\* the batch is kept whole, without the per-record filter
KeepWhole(min_ts, max_ts, current_ref_ts, next_ref_ts) ==
    min_ts <= current_ref_ts /\ max_ts >= next_ref_ts

\* the per-record filter of range
InFilter(up, min_ts, max_ts) == up.ts <= max_ts /\ up.ts >= min_ts

\* let bytes_to_skip = current_count * 12, a u16 product, where it wraps
bytes_to_skip(current_count) == (current_count * RECORD_BYTES) % U16

RECURSIVE RangeLoop(_, _, _, _, _, _)
\* the loop of range with the reader at pos.  current_count * 12 is a u16
\* product: with overflow checks (checked) it panics when it does not fit,
\* without them it wraps.
RangeLoop(f, pos, min_ts, max_ts, v, checked) ==
    IF Avail(f, pos) < 1 \/ f[pos + 1] # 1 THEN Ok(v)
    ELSE IF MetaPanics(f, pos + 1) THEN Panic("unwrap")
    ELSE
      LET current_meta   == read_one_batch_meta(f, pos + 1)
          current_ref_ts == current_meta.ref_ts
          product        == current_meta.count * RECORD_BYTES
          nextpos        == pos + 1 + BATCH_META_BYTES
                              + bytes_to_skip(current_meta.count)
      IN
      IF checked /\ product >= U16 THEN Panic("attempt to multiply with overflow")
      ELSE IF Avail(f, nextpos) < 1 \/ f[nextpos + 1] # 1 THEN Ok(v)
      ELSE IF MetaPanics(f, nextpos + 1) THEN Panic("unwrap")
      ELSE
        LET next_ref_ts == read_one_batch_meta(f, nextpos + 1).ref_ts
            here        == nextpos + 1 + BATCH_META_BYTES
        IN
        IF min_ts <= current_ref_ts /\ max_ts <= current_ref_ts THEN Ok(v)
        ELSE IF InRangeCase(min_ts, max_ts, current_ref_ts, next_ref_ts)
        THEN LET back == here - bytes_to_skip(current_meta.count) - 14 - 1
                 b == read_one_batch_main(f, back, current_meta.ref_ts,
                                          current_meta.ref_seq, current_meta.count)
                 filtered ==
                     IF KeepWhole(min_ts, max_ts, current_ref_ts, next_ref_ts)
                     THEN b.res.ups
                     ELSE SelectSeq(b.res.ups,
                                    LAMBDA up : InFilter(up, min_ts, max_ts))
             IN IF b.res.kind # "Ok" THEN b.res
                ELSE RangeLoop(f, b.pos, min_ts, max_ts, v \o filtered, checked)
        ELSE IF min_ts >= next_ref_ts
        THEN RangeLoop(f, here - 14 - 1, min_ts, max_ts, v, checked)
        ELSE Panic("Should have covered all the cases.")

\* range(rdr, min_ts, max_ts)
range(f, min_ts, max_ts, checked) ==
    IF min_ts > max_ts THEN Ok(<<>>)
    ELSE RangeLoop(f, MAIN_OFFSET, min_ts, max_ts, <<>>, checked)

\* get_range_in_file
get_range_in_file(ex, f, min_ts, max_ts, checked) ==
    LET r == file_reader(ex, f)
    IN IF r.kind # "Ok" THEN r ELSE range(f, min_ts, max_ts, checked)

\* read_len / read_max_ts: a u64 at a fixed offset
HeaderShort(f, off) == Avail(f, off) < 8
read_len(f) == FromBE(Slice(f, LEN_OFFSET, 8))
read_max_ts(f) == FromBE(Slice(f, MAX_TS_OFFSET, 8))
read_symbol(f) == Trim(Slice(f, SYMBOL_OFFSET, SYMBOL_LEN))

\* read_first: the first record of the first batch
read_first(f) ==
    LET b == read_one_batch(f, MAIN_OFFSET)
    IN IF b.res.kind # "Ok" THEN b.res
       ELSE IF b.res.ups = <<>> THEN Panic("index out of bounds")
       ELSE Ok(<<b.res.ups[1]>>)

\* read_meta
read_meta(ex, f) ==
    LET r == file_reader(ex, f)
    IN IF r.kind # "Ok" THEN r
       ELSE IF Avail(f, SYMBOL_OFFSET) < SYMBOL_LEN THEN Err("UnexpectedEof")
       ELSE IF HeaderShort(f, LEN_OFFSET) THEN Err("UnexpectedEof")
       ELSE IF HeaderShort(f, MAX_TS_OFFSET) THEN Err("UnexpectedEof")
       ELSE LET nums  == read_len(f)
                first == read_first(f)
            IN IF nums > 0 /\ first.kind # "Ok" THEN first
               ELSE OkMeta([symbol |-> read_symbol(f),
                            nums   |-> nums,
                            max_ts |-> read_max_ts(f),
                            min_ts |-> IF nums > 0 THEN first.ups[1].ts
                                       ELSE read_max_ts(f)])

\* a variant of the filter that also keeps the updates at old_max_ts
NotOlder(ups, old_max_ts) == SelectSeq(ups, LAMBDA up : up.ts >= old_max_ts)

\* a variant of the filter that keeps every update
Unfiltered(ups, old_max_ts) == ups

\* the filter of append
Newer(ups, old_max_ts) == SelectSeq(ups, LAMBDA up : up.ts > old_max_ts)

\* a variant that takes the ts of the first kept update
FirstKeptTs(kept) == kept[1].ts

\* the new max_ts append writes to the header: the ts of next_back()
NewMaxTs(kept) == kept[Len(kept)].ts

\* a variant that always starts at MAIN_OFFSET
AlwaysAtMain(f, cur_len) == MAIN_OFFSET

\* where append starts to write the batches
AppendAt(f, cur_len) == IF cur_len = 0 THEN MAIN_OFFSET ELSE Len(f)

\* append(fname, ups): the file left behind and the result
append(ex, f, ups) ==
    LET r == file_reader(ex, f)
    IN IF r.kind # "Ok" THEN [file |-> f, ret |-> r]
       ELSE IF Avail(f, SYMBOL_OFFSET) < SYMBOL_LEN
       THEN [file |-> f, ret |-> Err("UnexpectedEof")]
       ELSE IF HeaderShort(f, MAX_TS_OFFSET)
       THEN [file |-> f, ret |-> Err("UnexpectedEof")]
       ELSE
         LET old_max_ts == read_max_ts(f)
             kept       == Newer(ups, old_max_ts)
         IN
         IF kept = <<>> THEN [file |-> f, ret |-> Ok(<<>>)]
         ELSE
           LET new_min_ts == kept[1].ts
               new_max_ts == NewMaxTs(kept)
               cur_len    == read_len(f)
               new_len    == cur_len + Len(kept)
               f1 == WriteAt(f, LEN_OFFSET, BE(new_len, 8))
               f2 == WriteAt(f1, MAX_TS_OFFSET, BE(new_max_ts, 8))
               at == AppendAt(f2, cur_len)
               wb == write_batches(kept)
               f3 == WriteAt(f2, at, wb.out)
           IN
           IF new_min_ts <= old_max_ts
           THEN [file |-> f, ret |-> Panic("Cannot append data!(not implemented)")]
           ELSE [file |-> f3,
                 ret |-> IF wb.panic THEN Panic("serialize") ELSE Ok(<<>>)]

(***************************************************************************)
(* CircularQueue (packages/wstf_database/src/circular_queue.rs).  data is  *)
(* the Vec, indexed from 0 in the code and from 1 here; the elements are   *)
(* plain values, as the i32 of the tests.                                  *)
(***************************************************************************)
\* no queue has been constructed
NoQueue == [data |-> <<>>, capacity |-> 0, insertion_index |-> 0, reverse_idx |-> 0]

\* CircularQueue::with_capacity, for capacity > 0
with_capacity(capacity) ==
    [data |-> <<>>, capacity |-> capacity, insertion_index |-> 0, reverse_idx |-> 0]

\* CircularQueue::len
len(q) == Len(q.data)

\* a variant that leaves the write cursor where it was
ClearData(q) == [q EXCEPT !.data = <<>>]

\* CircularQueue::clear
clear(q) == [q EXCEPT !.data = <<>>, !.insertion_index = 0]

\* CircularQueue::push
push(q, x) ==
    [q EXCEPT !.data = IF Len(q.data) < q.capacity THEN Append(@, x)
                       ELSE [@ EXCEPT ![q.insertion_index + 1] = x],
              !.reverse_idx = IF @ > 0 THEN @ - 1 ELSE @,
              !.insertion_index = (@ + 1) % q.capacity]

\* what a call on a queue returns: None, Some(x) as <<x>>, (), the usize of
\* len as <<n>>, the items of iter, or a panic
QRet(kind, val) == [kind |-> kind, val |-> val]

\* the call `name` and the result r it returned
QCall(name, r) == [call |-> name, kind |-> r.kind, val |-> r.val]

\* a variant whose pop of a full queue leaves the reverse cursor alone
PopUncounted(q) ==
    IF Len(q.data) = 0 THEN [q |-> q, ret |-> QRet("None", <<>>)]
    ELSE IF Len(q.data) < q.capacity
    THEN [q |-> [q EXCEPT !.data = SubSeq(@, 1, Len(@) - 1)],
          ret |-> QRet("Some", <<q.data[Len(q.data)]>>)]
    ELSE LET at == (q.insertion_index + q.capacity - 1) % q.capacity
         IN [q |-> [q EXCEPT !.insertion_index = at],
             ret |-> QRet("Some", <<q.data[at + 1]>>)]

\* CircularQueue::pop: the queue it leaves and what it returns.  Below capacity
\* the Vec gives up its last element; at capacity the element under the cursor
\* is copied out (ptr::read) and data keeps its length.
pop(q) ==
    IF Len(q.data) = 0 THEN [q |-> q, ret |-> QRet("None", <<>>)]
    ELSE IF Len(q.data) < q.capacity
    THEN [q |-> [q EXCEPT !.data = SubSeq(@, 1, Len(@) - 1)],
          ret |-> QRet("Some", <<q.data[Len(q.data)]>>)]
    ELSE IF q.reverse_idx = q.capacity THEN [q |-> q, ret |-> QRet("None", <<>>)]
    ELSE LET at == (q.insertion_index + q.capacity - 1) % q.capacity
         IN [q |-> [q EXCEPT !.reverse_idx = @ + 1, !.insertion_index = at],
             ret |-> QRet("Some", <<q.data[at + 1]>>)]

Reversed(v) == [i \in 1..Len(v) |-> v[Len(v) - i + 1]]

\* a variant that walks the whole buffer backwards
IterUnsplit(q) == QRet("Items", Reversed(q.data))

\* CircularQueue::iter, collected: split_at panics when mid > len
iter(q) ==
    IF q.insertion_index > Len(q.data) THEN QRet("Panic", <<>>)
    ELSE QRet("Items",
              Reversed(SubSeq(q.data, 1, q.insertion_index))
                \o Reversed(SubSeq(q.data, q.insertion_index + 1, Len(q.data))))

(***************************************************************************)
(* CxnPool (packages/wstf_database/src/pool.rs)                            *)
(***************************************************************************)
\* no pool has been constructed
\* no pool has been constructed.  Next to the fields of CxnPool, a pool carries
\* the number of calls made on it (ncalls) and the ncalls that were buffered
\* and not handed out again since, oldest first, at most capacity of them (held).
NoPool ==
    [cxns |-> <<>>, available_workers |-> <<>>, queue |-> NoQueue,
     ncalls |-> 0, held |-> <<>>]

\* a call, the answers the server gave during it (sent, opens), what the pool
\* did with its retry queue (events, retried), what it returned (res) and the
\* pool it found
NoPoolCall ==
    [call |-> "none", strings |-> 0, res |-> "Ok", sent |-> <<>>, opens |-> <<>>,
     events |-> <<>>, retried |-> <<>>, found |-> NoPool]

\* InsertCommand: the insert the caller numbers id, which into_string turns
\* into `strings` command strings
InsertCommand(id, strings) == [id |-> id, strings |-> strings]

\* the command strings the pool writes to a connection
CommandString(kind, id, part) == [kind |-> kind, id |-> id, part |-> part]

\* A call in progress: the pool p, what the server is still going to answer to
\* the commands written to it (replies; "Ok" once they are used up) and to the
\* attempts to connect (connects; accepted once they are used up), the commands
\* written and the connections attempted so far, the calls made on the retry
\* queue and the buffered ncalls re-sent so far.
Run(p, replies, connects) ==
    [p |-> p, replies |-> replies, connects |-> connects,
     sent |-> <<>>, opens |-> <<>>, events |-> <<>>, retried |-> <<>>]

Rest(v) == IF v = <<>> THEN v ELSE Tail(v)

\* Cxn::new: a connection, numbered by the call that opens it and by the
\* attempts to connect before it in that call, or ConnectionError
CxnNew(r) ==
    LET ok == r.connects = <<>> \/ r.connects[1]
    IN [r |-> [r EXCEPT !.connects = Rest(@), !.opens = Append(@, ok)],
        ok |-> ok,
        cxn |-> 10 * r.p.ncalls + Len(r.opens)]

\* Cxn::cmd on the connection at index n: the command is written and the
\* server's answer is Ok, ConnectionError, DBNotFound or ServerError
CxnCmd(r, n, text) ==
    LET res == IF r.replies = <<>> THEN "Ok" ELSE r.replies[1]
    IN [r |-> [r EXCEPT !.replies = Rest(@),
                        !.sent = Append(@, [at |-> n, cxn |-> r.p.cxns[n + 1],
                                            text |-> text, res |-> res])],
        res |-> res]

\* available_workers.pop_front(), or a new connection pushed onto cxns
Acquire(r) ==
    IF r.p.available_workers # <<>>
    THEN [r |-> [r EXCEPT !.p.available_workers = Tail(@)], ok |-> TRUE,
          n |-> r.p.available_workers[1]]
    ELSE LET c == CxnNew(r)
         IN IF c.ok
            THEN [r |-> [c.r EXCEPT !.p.cxns = Append(@, c.cxn)], ok |-> TRUE,
                  n |-> Len(r.p.cxns)]
            ELSE [r |-> c.r, ok |-> FALSE, n |-> 0]

\* available_workers.push_back(n)
Release(r, n) == [r EXCEPT !.p.available_workers = Append(@, n)]

\* self.cxns[n] = Cxn::new(..)?
Replace(r, n) ==
    LET c == CxnNew(r)
    IN [r |-> IF c.ok THEN [c.r EXCEPT !.p.cxns[n + 1] = c.cxn] ELSE c.r,
        ok |-> c.ok]

\* CxnPool::cmd
cmd(r, text) ==
    LET a == Acquire(r)
        x == CxnCmd(a.r, a.n, text)
        c == Replace(x.r, a.n)
    IN IF ~a.ok THEN [r |-> a.r, res |-> "ConnectionError"]
       ELSE IF x.res = "ConnectionError"
       THEN IF ~c.ok THEN [r |-> c.r, res |-> "ConnectionError"]
            ELSE [r |-> Release(c.r, a.n), res |-> x.res]
       ELSE [r |-> Release(x.r, a.n), res |-> x.res]

\* CxnPool::create_db
create_db(r, ins) == cmd(r, CommandString("CREATE", ins.id, 0))

\* self.queue.push(cmd.clone())
Buffer(r, ins) ==
    [r EXCEPT !.p.queue = push(@, ins),
              !.p.held = IF Len(@) = r.p.queue.capacity THEN Append(Tail(@), ins)
                         ELSE Append(@, ins),
              !.events = Append(@, [call |-> "push", val |-> <<ins>>,
                                    held |-> r.p.held])]

\* self.queue.pop()
Unbuffer(r) ==
    LET o == pop(r.p.queue)
    IN [r |-> [r EXCEPT !.p.queue = o.q,
                        !.p.held = SubSeq(@, 1, Len(@) - 1),
                        !.events = Append(@, [call |-> "pop", val |-> o.ret.val,
                                              held |-> r.p.held])],
        ret |-> o.ret]

\* CxnPool::insert.  InsertFrom is the loop over the command strings from
\* string `part` on, on the connection at index n, and what follows the loop;
\* depth counts the retries this call may still nest.
RECURSIVE InsertFrom(_, _, _, _, _)
insert(r, ins, depth) ==
    LET a == Acquire(r)
    IN IF ~a.ok THEN [r |-> a.r, res |-> "ConnectionError"]
       ELSE InsertFrom(a.r, a.n, ins, 1, depth)

InsertFrom(r, n, ins, part, depth) ==
    IF part > ins.strings
    THEN LET o == Unbuffer(Release(r, n))
         IN IF o.ret.kind # "Some" THEN [r |-> o.r, res |-> "Ok"]
            ELSE IF depth = 0 THEN [r |-> o.r, res |-> "Unfinished"]
            ELSE insert([o.r EXCEPT !.retried = Append(@, o.ret.val[1])],
                        o.ret.val[1], depth - 1)
    ELSE LET x == CxnCmd(r, n, CommandString("INSERT", ins.id, part))
             c == Replace(Buffer(x.r, ins), n)
         IN CASE x.res = "ConnectionError" ->
                   IF ~c.ok THEN [r |-> c.r, res |-> "ConnectionError"]
                   ELSE [r |-> Release(c.r, n), res |-> "ConnectionError"]
              [] x.res = "DBNotFound" ->
                   [r |-> Release(Buffer(create_db(x.r, ins).r, ins), n),
                    res |-> "DBNotFound"]
              [] x.res = "ServerError" ->
                   [r |-> Release(x.r, n), res |-> "ServerError"]
              [] OTHER -> InsertFrom(x.r, n, ins, part + 1, depth)

(***************************************************************************)
(* The calls                                                               *)
(***************************************************************************)
NoEnc == [symbol |-> <<>>, ups |-> <<>>]

\* no function of the library is being run
NoRun == [fn |-> "none", done |-> TRUE]

Init ==
    /\ exists = FALSE
    /\ file = <<>>
    /\ op = Call("none", <<>>, <<>>, 0, 0, NoLimit)
    /\ ret = Ok(<<>>)
    /\ enc = NoEnc
    /\ napp = 0
    /\ before = <<>>
    /\ rdr = NoReader
    /\ queue = NoQueue /\ calls = <<>> /\ qret = QCall("none", QRet("Unit", <<>>))
    /\ pool = NoPool /\ pret = NoPoolCall
    /\ arg = <<>> /\ st = NoRun

\* A read leaves the file as it is, so the calls after it find what the calls
\* before it found: the model follows a read only by the reader's next.
AfterWrite == op.name \in {"none", "encode", "append"}

\* encode(fname, symbol, ups): file_writer(fname, true) creates or truncates
EncodeCall(symbol, ups) ==
    LET e == encode(symbol, ups)
    IN /\ AfterWrite
       /\ exists' = TRUE
       /\ file' = e.file
       /\ ret' = e.ret
       /\ op' = Call("encode", symbol, ups, 0, 0, NoLimit)
       /\ enc' = [symbol |-> symbol, ups |-> ups]
       /\ napp' = 0
       /\ before' = IF ups = <<>> THEN file ELSE <<>>
       /\ rdr' = NoReader
       /\ UNCHANGED <<queue_vars, pool_vars, fn_vars>>

\* the header's record count after append(ups), were it to succeed
GrownLen(f, ups) ==
    IF Avail(f, MAX_TS_OFFSET) < 8 THEN 0
    ELSE read_len(f) + Len(Newer(ups, read_max_ts(f)))

\* append(fname, ups)
AppendCall(ups) ==
    LET a == append(exists, file, ups)
    IN /\ AfterWrite
       /\ GrownLen(file, ups) <= MaxRecords
       /\ file' = a.file
       /\ ret' = a.ret
       /\ op' = Call("append", <<>>, ups, 0, 0, NoLimit)
       /\ napp' = IF a.file # file THEN napp + 1 ELSE napp
       /\ before' = file
       /\ rdr' = NoReader
       /\ UNCHANGED <<exists, enc, queue_vars, pool_vars, fn_vars>>

\* decode(fname, num_rows)
DecodeCall(limit) ==
    /\ AfterWrite
    /\ ret' = decode(exists, file, limit)
    /\ op' = Call("decode", <<>>, <<>>, 0, 0, limit)
    /\ before' = <<>>
    /\ rdr' = NoReader
    /\ UNCHANGED <<exists, file, enc, napp, queue_vars, pool_vars, fn_vars>>

\* get_range_in_file(fname, min_ts, max_ts), built with or without overflow checks
RangeCall(min_ts, max_ts, checked) ==
    /\ AfterWrite
    /\ ret' = get_range_in_file(exists, file, min_ts, max_ts, checked)
    /\ op' = Call("range", <<>>, <<>>, min_ts, max_ts, NoLimit)
    /\ before' = <<>>
    /\ rdr' = NoReader
    /\ UNCHANGED <<exists, file, enc, napp, queue_vars, pool_vars, fn_vars>>

\* read_meta(fname)
ReadMetaCall ==
    /\ AfterWrite
    /\ ret' = read_meta(exists, file)
    /\ op' = Call("read_meta", <<>>, <<>>, 0, 0, NoLimit)
    /\ before' = <<>>
    /\ rdr' = NoReader
    /\ UNCHANGED <<exists, file, enc, napp, queue_vars, pool_vars, fn_vars>>

\* WSTFBufReader::new(fname, batch_size)
ReaderNew(batch_size) ==
    LET r == file_reader(exists, file)
    IN /\ AfterWrite
       /\ ret' = IF r.kind # "Ok" THEN Panic("Cannot open file") ELSE Ok(<<>>)
       /\ rdr' = IF r.kind # "Ok" THEN NoReader
                 ELSE [open |-> TRUE, pos |-> MAIN_OFFSET, batch_size |-> batch_size,
                       got |-> <<>>]
       /\ op' = Call("new", <<>>, <<>>, 0, 0, Some(batch_size))
       /\ before' = <<>>
       /\ UNCHANGED <<exists, file, enc, napp, queue_vars, pool_vars, fn_vars>>

\* WSTFBufReader::next
ReaderNext ==
    LET r == read_n_batches(file, rdr.pos, rdr.batch_size)
    IN /\ rdr.open
       /\ ret' = IF r.res.kind = "Panic" THEN r.res
                 ELSE IF r.res.kind = "Ok" /\ Len(r.res.ups) # 0
                 THEN SomeRet(r.res.ups)
                 ELSE NoneRet
       /\ rdr' = [rdr EXCEPT !.pos = r.pos,
                             !.got = IF r.res.kind = "Ok" /\ Len(r.res.ups) # 0
                                     THEN Append(@, r.res.ups) ELSE @]
       /\ op' = Call("next", <<>>, <<>>, 0, 0, Some(rdr.batch_size))
       /\ before' = <<>>
       /\ UNCHANGED <<exists, file, enc, napp, queue_vars, pool_vars, fn_vars>>

Limits == { NoLimit } \cup { Some(n) : n \in 0..MaxBatchArg }

\* encode with a symbol that fits, with one that fills the field, and with one
\* that does not fit
EncodeArgs ==
    { <<ShortSymbol, ups>> : ups \in SortedVecs }
      \cup { <<s, ups>> : s \in {FullSymbol, LongSymbol},
                          ups \in { v \in SortedVecs : Len(v) = 1 } }

RangeArgs ==
    { p \in RangeVals \X RangeVals : p[1] <= p[2] }
      \cup { <<2, 1>> }

Next ==
    \/ \E a \in EncodeArgs : EncodeCall(a[1], a[2])
    \/ \E ups \in SortedVecs : AppendCall(ups)
    \/ \E limit \in Limits : DecodeCall(limit)
    \/ \E a \in RangeArgs, checked \in BOOLEAN : RangeCall(a[1], a[2], checked)
    \/ ReadMetaCall
    \/ \E n \in 0..MaxBatchArg : ReaderNew(n)
    \/ ReaderNext

Spec == Init /\ [][Next]_vars

(***************************************************************************)
(* Large batches: one batch of LargeLen records under one seq, so that the *)
(* u16 product current_count * 12 of range no longer fits                  *)
(***************************************************************************)
LargeLen == 5462

\* a sorted vector of n records at seq 0: the first carries the size bits
\* size0, the second the flag is_bid1, the last the ts last_ts, the others
\* are zero records at ts 1
LargeVec(n, size0, is_bid1, last_ts) ==
    SubSeq([k \in 1..n |->
              \* 16777216 = 0x01000000, the bits of a small positive f32
              IF k = 1 THEN Update(1, 0, FALSE, FALSE, 0, size0)
              ELSE IF k = 2 THEN Update(1, 0, FALSE, is_bid1, 0, 0)
              ELSE IF k = n THEN Update(last_ts, 0, FALSE, FALSE, 0, 0)
              ELSE Update(1, 0, FALSE, FALSE, 0, 0)], 1, n)

LargeRangeVals == {0, 1, 256, 1000}

LargeRangeArgs == { p \in LargeRangeVals \X LargeRangeVals : p[1] <= p[2] }

\* encode of a large vector, as the first call of all
EncodeLarge(size0, is_bid1, last_ts) ==
    /\ op.name = "none"
    /\ EncodeCall(ShortSymbol, LargeVec(LargeLen, size0, is_bid1, last_ts))

NextLarge ==
    \/ \E size0 \in {0, 16777216}, is_bid1 \in BOOLEAN, last_ts \in {1, 1000} :
          EncodeLarge(size0, is_bid1, last_ts)
    \/ \E a \in LargeRangeArgs, checked \in BOOLEAN : RangeCall(a[1], a[2], checked)
    \/ DecodeCall(NoLimit)
    \/ ReadMetaCall

SpecLarge == Init /\ [][NextLarge]_vars

(***************************************************************************)
(* Any input: vectors in any order, and a run of records long enough to    *)
(* saturate the u16 count of a batch                                       *)
(***************************************************************************)
HugeLen == 65536

\* n zero records at ts 1, seq 0
HugeVec(n) == SubSeq([k \in 1..n |-> Update(1, 0, FALSE, FALSE, 0, 0)], 1, n)

\* encode of a huge vector, as the first call of all
EncodeHuge(n) ==
    /\ op.name = "none"
    /\ EncodeCall(ShortSymbol, HugeVec(n))

NextAny ==
    \/ \E ups \in Vecs : EncodeCall(ShortSymbol, ups)
    \/ \E n \in {HugeLen - 1, HugeLen} : EncodeHuge(n)
    \/ \E ups \in Vecs : AppendCall(ups)
    \/ DecodeCall(NoLimit)

SpecAny == Init /\ [][NextAny]_vars

(***************************************************************************)
(* Files found on disk: written by encode, or not                          *)
(***************************************************************************)
UpdateAt(ts, seq) ==
    Update(ts, seq, PayloadOf(ts, seq)[1], PayloadOf(ts, seq)[2],
           PayloadOf(ts, seq)[3], PayloadOf(ts, seq)[4])

\* what encode writes for two records that fall into two batches
TwoBatches == encode(ShortSymbol, <<UpdateAt(1, 0), UpdateAt(1, 15)>>).file

\* f with its first byte replaced, so that the magic value does not match
BadMagic(f) == <<88>> \o Tail(f)

\* f with the byte b inserted at offset pos
WithByteAt(f, pos, b) == SubSeq(f, 1, pos) \o <<b>> \o SubSeq(f, pos + 1, Len(f))

\* where the second batch of TwoBatches starts
SecondBatchAt == MAIN_OFFSET + 1 + BATCH_META_BYTES + RECORD_BYTES

FilesOnDisk ==
    { TwoBatches,
      BadMagic(TwoBatches),
      BadMagic(MAGIC_VALUE),
      WithByteAt(TwoBatches, SecondBatchAt, 0),
      WithByteAt(TwoBatches, MAIN_OFFSET, 2),
      TwoBatches \o <<0>>,
      MAGIC_VALUE,
      SubSeq(MAGIC_VALUE, 1, 2) }

InitFile ==
    /\ exists = TRUE
    /\ file \in FilesOnDisk
    /\ op = Call("none", <<>>, <<>>, 0, 0, NoLimit)
    /\ ret = Ok(<<>>)
    /\ enc = NoEnc
    /\ napp = 0
    /\ before = <<>>
    /\ rdr = NoReader
    /\ queue = NoQueue /\ calls = <<>> /\ qret = QCall("none", QRet("Unit", <<>>))
    /\ pool = NoPool /\ pret = NoPoolCall
    /\ arg = <<>> /\ st = NoRun

NextFile ==
    \/ \E ups \in SortedVecs : AppendCall(ups)
    \/ \E limit \in Limits : DecodeCall(limit)
    \/ \E a \in RangeArgs, checked \in BOOLEAN : RangeCall(a[1], a[2], checked)
    \/ ReadMetaCall
    \/ \E n \in 0..MaxBatchArg : ReaderNew(n)
    \/ ReaderNext

SpecFile == InitFile /\ [][NextFile]_vars

\* an open iterator that has not yet yielded None: its next call changes the
\* state, either by the chunk it yields or by the None it ends with
IterPending == rdr.open /\ ~(op.name = "next" /\ ret.kind \in {"None", "Panic"})

\* the calls on one file, the loop `for chunk in reader` driving an open iterator
\* until it yields None: weak fairness of ReaderNext, its enabling condition
\* written out as IterPending
SpecIter ==
    Init /\ [][Next]_vars /\ ([]<>(~IterPending) \/ []<><<ReaderNext>>_vars)

(***************************************************************************)
(* The calls on one CircularQueue                                          *)
(***************************************************************************)
\* the file and the pool are left alone
InitIdle ==
    /\ exists = FALSE
    /\ file = <<>>
    /\ op = Call("none", <<>>, <<>>, 0, 0, NoLimit)
    /\ ret = Ok(<<>>)
    /\ enc = NoEnc
    /\ napp = 0
    /\ before = <<>>
    /\ rdr = NoReader

InitQueue ==
    /\ InitIdle
    /\ queue \in { with_capacity(c) : c \in 1..MaxCap }
    /\ calls = <<>>
    /\ qret = QCall("with_capacity", QRet("Unit", <<>>))
    /\ pool = NoPool /\ pret = NoPoolCall
    /\ arg = <<>> /\ st = NoRun

\* the number of push calls among h
RECURSIVE PushCount(_)
PushCount(h) ==
    IF h = <<>> THEN 0
    ELSE PushCount(SubSeq(h, 1, Len(h) - 1))
           + (IF h[Len(h)] = "push" THEN 1 ELSE 0)

\* q.push(x): the values pushed are 1, 2, 3, ... as in the tests
PushCall ==
    /\ Len(calls) < MaxCalls
    /\ queue' = push(queue, PushCount(calls) + 1)
    /\ calls' = Append(calls, "push")
    /\ qret' = QCall("push", QRet("Unit", <<>>))
    /\ UNCHANGED <<file_vars, pool_vars, fn_vars>>

\* q.pop()
PopCall ==
    /\ Len(calls) < MaxCalls
    /\ queue' = pop(queue).q
    /\ calls' = Append(calls, "pop")
    /\ qret' = QCall("pop", pop(queue).ret)
    /\ UNCHANGED <<file_vars, pool_vars, fn_vars>>

\* q.clear()
ClearCall ==
    /\ Len(calls) < MaxCalls
    /\ queue' = clear(queue)
    /\ calls' = Append(calls, "clear")
    /\ qret' = QCall("clear", QRet("Unit", <<>>))
    /\ UNCHANGED <<file_vars, pool_vars, fn_vars>>

\* q.len()
LenCall ==
    /\ qret' = QCall("len", QRet("Len", <<len(queue)>>))
    /\ UNCHANGED <<file_vars, pool_vars, fn_vars, queue, calls>>

\* q.iter().collect()
IterCall ==
    /\ qret' = QCall("iter", iter(queue))
    /\ UNCHANGED <<file_vars, pool_vars, fn_vars, queue, calls>>

NextQueue == PushCall \/ PopCall \/ ClearCall \/ LenCall \/ IterCall

SpecQueue == InitQueue /\ [][NextQueue]_vars

(***************************************************************************)
(* The calls on one CxnPool                                                *)
(***************************************************************************)
\* CxnPool::new(n_workers, host, port, capacity) with the server accepting
\* every connection
PoolNew(n_workers, capacity) ==
    [cxns |-> [i \in 1..n_workers |-> i],
     available_workers |-> [i \in 1..n_workers |-> i - 1],
     queue |-> with_capacity(capacity),
     ncalls |-> 0, held |-> <<>>]

InitPool ==
    /\ InitIdle
    /\ queue = NoQueue /\ calls = <<>> /\ qret = QCall("none", QRet("Unit", <<>>))
    /\ pool \in { PoolNew(n, c) : n \in 1..MaxWorkers, c \in 1..MaxPoolCap }
    /\ pret = NoPoolCall
    /\ arg = <<>> /\ st = NoRun

Answers == {"Ok", "ConnectionError", "DBNotFound", "ServerError"}

\* what the server answers during one call, up to the plain Ok it goes on with
Replies ==
    { v \in UNION { [1..k -> Answers] : k \in 0..MaxReplies } :
        v = <<>> \/ v[Len(v)] # "Ok" }

\* the server accepts every connection, or refuses the first one
Connects == { <<>>, <<FALSE>> }

PoolCall(name, strings, o) ==
    [call |-> name, strings |-> strings, res |-> o.res, sent |-> o.r.sent,
     opens |-> o.r.opens, events |-> o.r.events, retried |-> o.r.retried,
     found |-> pool]

\* pool.insert(&cmd)
InsertCall(strings, replies, connects) ==
    LET ins == InsertCommand(pool.ncalls + 1, strings)
        o == insert(Run([pool EXCEPT !.ncalls = @ + 1], replies, connects),
                    ins, MaxRetries)
    IN /\ pool.ncalls < MaxPoolCalls
       /\ pool' = o.r.p
       /\ pret' = PoolCall("insert", strings, o)
       /\ UNCHANGED <<file_vars, queue_vars, fn_vars>>

\* pool.cmd(command)
CmdCall(replies, connects) ==
    LET o == cmd(Run([pool EXCEPT !.ncalls = @ + 1], replies, connects),
                 CommandString("CMD", 0, 0))
    IN /\ pool.ncalls < MaxPoolCalls
       /\ pool' = o.r.p
       /\ pret' = PoolCall("cmd", 0, o)
       /\ UNCHANGED <<file_vars, queue_vars, fn_vars>>

\* after the first FaultyCalls calls the server either answers Ok throughout
\* or has dropped the connection the call takes
Faults ==
    IF pool.ncalls < FaultyCalls THEN Replies \X Connects \X (1..2)
    ELSE { <<<<>>, <<>>, 1>>, <<<<"ConnectionError">>, <<>>, 1>> }

NextPool ==
    \/ \E f \in Faults : InsertCall(f[3], f[1], f[2])
    \/ \E f \in Faults : CmdCall(f[1], f[2])

SpecPool == InitPool /\ [][NextPool]_vars

(***************************************************************************)
(* Events (packages/wstf_algorithms/src/events.rs).  A BTreeMap is a       *)
(* function on the keys it holds.  f32 values are bit patterns with the    *)
(* sign bit clear: among these, the IEEE order of the numbers is the order *)
(* of the patterns, and the patterns above that of +infinity are NaNs,     *)
(* which compare false with everything.                                    *)
(***************************************************************************)
MaxRows == 3      \* longest slice handed to Events::from

\* f32: x is a NaN
F32IsNaN(x) == x > 2139095040                 \* 0x7F800000 is +infinity

\* f32 partial_cmp, on which ==, <= and > rest
partial_cmp(x, y) ==
    IF F32IsNaN(x) \/ F32IsNaN(y) THEN "None"
    ELSE IF x < y THEN "Less"
    ELSE IF x = y THEN "Equal"
    ELSE "Greater"

F32Eq(x, y) == partial_cmp(x, y) = "Equal"
F32Le(x, y) == partial_cmp(x, y) \in {"Less", "Equal"}
F32Gt(x, y) == partial_cmp(x, y) = "Greater"

\* the rows of the slices: two timestamps, two prices (1.0, 2.0), trades and
\* level updates, sizes 0.0, 1.0, 2.0 and a NaN
EventRows ==
    { Update(ts, 0, is_trade, TRUE, price, size) :
        ts \in {1, 2}, is_trade \in BOOLEAN,
        price \in {1065353216, 1073741824},
        size \in {0, 1065353216, 1073741824, 2143289344} }

RECURSIVE SlicesOf(_, _)
\* the slices of exactly n rows drawn from set S
SlicesOf(S, n) ==
    IF n = 0 THEN { <<>> }
    ELSE { Append(v, u) : v \in SlicesOf(S, n - 1), u \in S }

\* map.entry(key).or_insert(Vec::new()).push(row)
EntryPush(map, key, row) ==
    IF key \in DOMAIN map THEN [map EXCEPT ![key] = Append(@, row)]
    ELSE [k \in DOMAIN map \cup {key} |->
            IF k = key THEN <<row>> ELSE map[k]]

\* BTreeMap::insert
MapInsert(map, key, val) ==
    [k \in DOMAIN map \cup {key} |-> IF k = key THEN val ELSE map[k]]

\* the locals of Events::from before the loop
EventsLocals ==
    [fn |-> "Events::from", done |-> FALSE, panic |-> FALSE, i |-> 0,
     cancelled |-> <<>>, trades |-> <<>>, created |-> <<>>,
     current_level |-> <<>>]

\* the body of the loop of Events::from for one row
EventsRow(s, row) ==
    LET ts    == row.ts
        price == row.price
        prev  == IF price \in DOMAIN s.current_level
                 THEN s.current_level[price] ELSE 0
        level == MapInsert(s.current_level, price, row.size)
        next  == [s EXCEPT !.i = @ + 1, !.current_level = level]
    IN IF row.is_trade
       THEN [next EXCEPT !.trades = EntryPush(@, ts, row)]
       ELSE IF F32Eq(row.size, 0) \/ F32Le(row.size, prev)
       THEN [next EXCEPT !.cancelled = EntryPush(@, ts, row)]
       ELSE IF F32Gt(row.size, prev)
       THEN [next EXCEPT !.created = EntryPush(@, ts, row)]
       ELSE [s EXCEPT !.done = TRUE, !.panic = TRUE]       \* unreachable!()

InitEvents ==
    /\ InitIdle
    /\ queue = NoQueue /\ calls = <<>> /\ qret = QCall("none", QRet("Unit", <<>>))
    /\ pool = NoPool /\ pret = NoPoolCall
    /\ arg \in UNION { SlicesOf(EventRows, n) : n \in 0..MaxRows }
    /\ st = EventsLocals

\* one turn of the loop
EventsFromRow ==
    /\ st.fn = "Events::from" /\ ~st.done /\ st.i < Len(arg)
    /\ st' = EventsRow(st, arg[st.i + 1])
    /\ UNCHANGED <<file_vars, queue_vars, pool_vars, arg>>

\* the loop is over: Events { cancelled, trades, created } is returned
EventsFromReturn ==
    /\ st.fn = "Events::from" /\ ~st.done /\ st.i = Len(arg)
    /\ st' = [st EXCEPT !.done = TRUE]
    /\ UNCHANGED <<file_vars, queue_vars, pool_vars, arg>>

NextEvents == EventsFromRow \/ EventsFromReturn

SpecEvents == InitEvents /\ [][NextEvents]_vars

(***************************************************************************)
(* Histogram on the time axis (packages/wstf_algorithms/src/histogram.rs). *)
(* An f64 is carried as a whole number of halves, so that the prices       *)
(* handed to to_bin can lie between two u64 timestamps; `as f64` of a u64  *)
(* of the model is exact.                                                  *)
(***************************************************************************)
MaxTs   == 8      \* largest max_ts handed to new_boundaries
MaxBins == 4      \* largest step_bins handed to new_boundaries

\* u64 as f64
AsF64(n) == 2 * n

\* utils::bigram: the pairs of neighbours of a
bigram(a) == [i \in 1..(Len(a) - 1) |-> <<a[i], a[i + 1]>>]

\* Histogram::new_boundaries
new_boundaries(min_ts, max_ts, step_bins) ==
    LET bucket_size == (max_ts - min_ts) \div (step_bins - 1)
        boundaries  == [i \in 1..step_bins |->
                          AsF64(min_ts + (i - 1) * bucket_size)]
    IN [fn |-> "Histogram", done |-> FALSE,
        boundaries |-> boundaries,
        boundary2idx |-> [b \in { boundaries[i] : i \in 1..step_bins } |->
                            CHOOSE i \in 0..(step_bins - 1) :
                               /\ boundaries[i + 1] = b
                               /\ \A j \in (i + 2)..step_bins : boundaries[j] # b],
        cached_bigram |-> bigram(boundaries),
        price |-> 0, bin |-> NoLimit]

\* a variant of to_bin whose bins are closed on the right
ToBinClosed(h, price) ==
    LET hit == { k \in 1..Len(h.cached_bigram) :
                   \/ h.cached_bigram[k][1] = price
                   \/ (h.cached_bigram[k][2] >= price
                       /\ price > h.cached_bigram[k][1]) }
    IN IF hit = {} THEN NoLimit
       ELSE Some(h.cached_bigram[CHOOSE k \in hit : \A m \in hit : k <= m][1])

\* Histogram::to_bin: the lower end of the first pair that takes the price,
\* None (NoLimit) if no pair does
to_bin(h, price) ==
    LET hit == { k \in 1..Len(h.cached_bigram) :
                   \/ h.cached_bigram[k][1] = price
                   \/ (h.cached_bigram[k][2] > price
                       /\ price > h.cached_bigram[k][1]) }
    IN IF hit = {} THEN NoLimit
       ELSE Some(h.cached_bigram[CHOOSE k \in hit : \A m \in hit : k <= m][1])

\* the arguments of new_boundaries: step_bins >= 2 and min_ts <= max_ts
BoundaryArgs ==
    { <<min_ts, max_ts, n>> \in (0..MaxTs) \X (0..MaxTs) \X (2..MaxBins) :
         min_ts <= max_ts }

InitHistogram ==
    /\ InitIdle
    /\ queue = NoQueue /\ calls = <<>> /\ qret = QCall("none", QRet("Unit", <<>>))
    /\ pool = NoPool /\ pret = NoPoolCall
    /\ arg \in BoundaryArgs
    /\ st = new_boundaries(arg[1], arg[2], arg[3])

\* step_hist.to_bin(price)
ToBinCall(price) ==
    /\ st.fn = "Histogram"
    /\ st' = [st EXCEPT !.done = TRUE, !.price = price, !.bin = to_bin(st, price)]
    /\ UNCHANGED <<file_vars, queue_vars, pool_vars, arg>>

NextHistogram == \E price \in 0..(2 * MaxTs + 2) : ToBinCall(price)

SpecHistogram == InitHistogram /\ [][NextHistogram]_vars

(***************************************************************************)
(* The raw insert message (src/src/utils.rs) and the raw record codec      *)
(* (src/src/update.rs).  A book name is its UTF-8 bytes.                   *)
(***************************************************************************)
RAW_INSERT_PREFIX == <<114, 97>>               \* b"ra"
BOOK_NAME_CAP == 64                            \* ArrayString<64>

\* a variant that writes the size before the price
SerializeRawSwapped(u) ==
    BE(u.ts, 8) \o BE(u.seq, 4) \o <<FlagBits(u)>> \o BE(u.size, 4) \o BE(u.price, 4)

\* Update::serialize_raw_to_buffer, the bytes written
serialize_raw_to_buffer(u) ==
    BE(u.ts, 8) \o BE(u.seq, 4) \o <<FlagBits(u)>> \o BE(u.price, 4) \o BE(u.size, 4)

\* None of an Option<Update>, and of an Option of bytes
NoUpdate == [some |-> FALSE, n |-> Update(0, 0, FALSE, FALSE, 0, 0)]
NoBytes  == [some |-> FALSE, n |-> <<>>]

\* Update::from_raw: Err when the buffer ends early or an unknown flag is set
from_raw(buf) ==
    IF Len(buf) < 13 THEN NoUpdate
    ELSE LET flags == buf[13]
         IN IF ~FlagsValid(flags) \/ Len(buf) < 21 THEN NoUpdate
            ELSE Some(Update(FromBE(Slice(buf, 0, 8)), FromBE(Slice(buf, 8, 4)),
                             FlagToBool(flags, FLAG_IS_TRADE),
                             FlagToBool(flags, FLAG_IS_BID),
                             FromBE(Slice(buf, 13, 4)), FromBE(Slice(buf, 17, 4))))

\* encode_insert_into: writes to a Vec do not fail
encode_insert_into(book_name, update) ==
    LET name_len == IF book_name.some THEN Len(book_name.n) ELSE 0
    IN RAW_INSERT_PREFIX \o BE(name_len, 8)
         \o (IF book_name.some THEN book_name.n ELSE <<>>)
         \o serialize_raw_to_buffer(update) \o <<10>>

\* what decode_insert_into returns: None, or Some((update, book_name)), or a
\* panic of the slice index
Decoded(kind, update, book_name) ==
    [kind |-> kind, update |-> update, book_name |-> book_name]

\* decode_insert_into
decode_insert_into(buf) ==
    LET start == Len(RAW_INSERT_PREFIX)
    IN IF Avail(buf, start) < 8 THEN Decoded("None", NoUpdate, NoBytes)
       ELSE
         LET name_len == FromBE(Slice(buf, start, 8))
             pos == start + 8
         IN IF name_len > 0 /\ pos + name_len > Len(buf)
            THEN Decoded("Panic", NoUpdate, NoBytes)
            ELSE IF name_len > BOOK_NAME_CAP
            THEN Decoded("None", NoUpdate, NoBytes)        \* BookName::from(name).ok()?
            ELSE LET book_name == IF name_len > 0 THEN Some(Slice(buf, pos, name_len))
                                  ELSE NoBytes
                     rest == SubSeq(buf, pos + name_len + 1, Len(buf))
                 IN Decoded("Some", from_raw(rest), book_name)

\* a name of n bytes
NameOf(n) == [i \in 1..n |-> IF i % 2 = 1 THEN 98 ELSE 10]

\* the book names handed to encode_insert_into: none, the empty name, names
\* of 1, 2, 63 and 64 bytes, and one of 65 bytes
BookNames == { NoBytes } \cup { Some(NameOf(n)) : n \in {0, 1, 2, 63, 64, 65} }

InitInsert ==
    /\ InitIdle
    /\ queue = NoQueue /\ calls = <<>> /\ qret = QCall("none", QRet("Unit", <<>>))
    /\ pool = NoPool /\ pret = NoPoolCall
    /\ arg \in [book_name : BookNames, update : Updates \cup EventRows]
    /\ st = [fn |-> "insert_into", done |-> FALSE, buf |-> NoBytes,
             out |-> Decoded("None", NoUpdate, NoBytes)]

\* let buf = encode_insert_into(book_name, &update).unwrap()
EncodeInsertCall ==
    /\ st.fn = "insert_into" /\ ~st.buf.some
    /\ st' = [st EXCEPT !.buf = Some(encode_insert_into(arg.book_name, arg.update))]
    /\ UNCHANGED <<file_vars, queue_vars, pool_vars, arg>>

\* decode_insert_into(&buf)
DecodeInsertCall ==
    /\ st.fn = "insert_into" /\ st.buf.some /\ ~st.done
    /\ st' = [st EXCEPT !.done = TRUE, !.out = decode_insert_into(st.buf.n)]
    /\ UNCHANGED <<file_vars, queue_vars, pool_vars, arg>>

NextInsert == EncodeInsertCall \/ DecodeInsertCall

SpecInsert == InitInsert /\ [][NextInsert]_vars

(***************************************************************************)
(* RebinnedOrderbook (src/src/algorithms/orderbook.rs) with the price      *)
(* histogram it builds (histogram.rs).  In this section the f32 price and  *)
(* size of an update are whole numbers, carried as those numbers (their    *)
(* sums and differences are exact in f32), and its ts is a whole number of *)
(* seconds, carried in seconds: the u64 ts is 1000 * ts.  An IndexMap of   *)
(* one side of a book is a function on the prices it holds; the book       *)
(* across time is the sequence of its entries in insertion order.          *)
(***************************************************************************)
MaxUps   == 3             \* longest slice handed to RebinnedOrderbook::from
EpochSec == 1000000000    \* 10^9 s: from there on fill_digits leaves 1000 * ts alone

\* fill_digits(1000 * secs) / 1000: the loop multiplies by 10 up to 10^12
RECURSIVE fill_digits(_)
fill_digits(secs) ==
    IF secs = 0 THEN 0
    ELSE IF secs < EpochSec THEN fill_digits(secs * 10)
    ELSE secs

\* percentile_of_sorted(local_sort(v), 50), doubled: the middle sample, or
\* the midpoint lo + (hi - lo) * 0.5 of the two middle ones
MedianTwice(v) ==
    LET s == SortSeq(v, LAMBDA x, y : x < y)
        n == (Len(s) - 1) \div 2
    IN IF Len(s) = 1 THEN 2 * s[1]
       ELSE IF (Len(s) - 1) % 2 = 0 THEN 2 * s[n + 1]
       ELSE s[n + 1] + s[n + 2]

\* |x|
Abs(x) == IF x < 0 THEN 0 - x ELSE x

\* reject_outliers: the prices whose distance from the median, over the
\* median distance, is below m (the quotient is 0 when the median distance
\* is 0); the comparison is made on the cross product
reject_outliers(prices, m) ==
    LET median == MedianTwice(prices)
        d      == [i \in 1..Len(prices) |-> Abs(2 * prices[i] - median)]
        mdev   == MedianTwice(d)
        keep(i) == IF mdev > 0 THEN 2 * d[i] < m * mdev ELSE 0 < m
        RECURSIVE Kept(_)
        Kept(n) == IF n = 0 THEN <<>>
                   ELSE IF keep(n) THEN Append(Kept(n - 1), prices[n])
                   ELSE Kept(n - 1)
    IN Kept(Len(prices))

\* build_histogram; bin_count - 1 divides max - min for the slices drawn
build_histogram(filtered_vals, bin_count) ==
    LET vals == { filtered_vals[i] : i \in 1..Len(filtered_vals) }
        max  == CHOOSE x \in vals : \A y \in vals : y <= x
        min  == CHOOSE x \in vals : \A y \in vals : x <= y
        bucket_size == (max - min) \div (bin_count - 1)
        index(price) ==
            IF bucket_size > 0
            THEN LET k == (price - min) \div bucket_size
                 IN IF k = bin_count THEN k - 1 ELSE k
            ELSE 0
        boundaries == [i \in 1..bin_count |-> min + (i - 1) * bucket_size]
    IN [fn |-> "Histogram", panic |-> FALSE,
        bins |-> [b \in 0..(bin_count - 1) |->
                    Cardinality({ i \in 1..Len(filtered_vals) :
                                    index(filtered_vals[i]) = b })],
        boundaries |-> boundaries,
        cached_bigram |-> bigram(boundaries)]

\* Histogram::new; the median of no prices and the min of no kept prices
\* index an empty vector
HistogramNew(prices, bin_count, m) ==
    IF prices = <<>> \/ reject_outliers(prices, m) = <<>>
    THEN [fn |-> "Histogram", panic |-> TRUE, bins |-> <<>>,
          boundaries |-> <<>>, cached_bigram |-> <<>>]
    ELSE build_histogram(reject_outliers(prices, m), bin_count)

\* Orderbook::new
NewOrderbook == [bids |-> <<>>, asks |-> <<>>]

\* the filter of Orderbook::clean on one side
CleanSide(side) == [p \in { q \in DOMAIN side : side[q] # 0 } |-> side[p]]

\* Orderbook::clean
clean(ob) == [bids |-> CleanSide(ob.bids), asks |-> CleanSide(ob.asks)]

\* the side an update belongs to
SideOf(ob, up) == IF up.is_bid THEN ob.bids ELSE ob.asks

WithSide(ob, up, side) ==
    IF up.is_bid THEN [ob EXCEPT !.bids = side] ELSE [ob EXCEPT !.asks = side]

\* a variant that finds no key
KeyAbsent(book, time) == 0

\* the index of coarse_time in ob_across_time, 0 if it is not a key
KeyAt(book, time) ==
    IF \E k \in 1..Len(book) : book[k].time = time
    THEN CHOOSE k \in 1..Len(book) : book[k].time = time
    ELSE 0

\* the locals of RebinnedOrderbook::from before the loop
RebinLocals(ups, step_bins, tick_bins, m) ==
    LET prices     == [i \in 1..Len(ups) |-> AsF64(ups[i].price)]
        price_hist == HistogramNew(prices, tick_bins, m)
        min_ts     == fill_digits(ups[1].ts)
        max_ts     == fill_digits(ups[Len(ups)].ts)
    IN IF ups = <<>> \/ price_hist.panic \/ min_ts > max_ts
       THEN [fn |-> "RebinnedOrderbook::from", done |-> TRUE, panic |-> TRUE]
       ELSE [fn |-> "RebinnedOrderbook::from", done |-> FALSE, panic |-> FALSE,
             i |-> 0,
             price_hist |-> price_hist,
             step_hist |-> new_boundaries(min_ts, max_ts, step_bins),
             fine_level |-> NewOrderbook,
             temp_ob |-> NewOrderbook,
             ob_across_time |-> <<>>,
             seen |-> <<>>]

\* the body of the loop of RebinnedOrderbook::from for one update; seen
\* keeps, for every update that got past the two bins, the bins, the size
\* the fine book held for its price, the sizes of its coarse cell before
\* and after, and the running coarse book it left
RebinRow(s, up) ==
    LET ts    == to_bin(s.step_hist, AsF64(up.ts))
        price == to_bin(s.price_hist, AsF64(up.price))
        next  == [s EXCEPT !.i = @ + 1]
    IN IF up.is_trade THEN next
       ELSE IF ~ts.some \/ ~price.some THEN next
       ELSE
         LET coarse_time  == ts.n
             coarse_price == price.n
             fine_key     == AsF64(up.price)
             cleaned      == clean(s.fine_level)
             fine_book    == SideOf(cleaned, up)
             fine_size    == IF fine_key \in DOMAIN fine_book
                             THEN fine_book[fine_key] ELSE up.size
             local_side   == SideOf(s.temp_ob, up)
             inserted     == IF coarse_price \in DOMAIN local_side
                             THEN local_side[coarse_price] ELSE up.size
             moved        == IF fine_size = up.size THEN inserted
                             ELSE IF fine_size > up.size
                             THEN inserted - (fine_size - up.size)
                             ELSE inserted + (up.size - fine_size)
             coarse_size  == IF moved < 0 THEN 0 ELSE moved
             fine_level   == WithSide(cleaned, up,
                                MapInsert(fine_book, fine_key, up.size))
             temp_ob      == WithSide(s.temp_ob, up,
                                MapInsert(local_side, coarse_price, coarse_size))
             at           == KeyAt(s.ob_across_time, coarse_time)
             across ==
                 IF at = 0
                 THEN Append(s.ob_across_time, [time |-> coarse_time, ob |-> temp_ob])
                 ELSE [s.ob_across_time EXCEPT ![at].ob =
                         WithSide(@, up, MapInsert(SideOf(@, up), coarse_price,
                                                   coarse_size))]
         IN [next EXCEPT !.fine_level = fine_level,
                         !.temp_ob = temp_ob,
                         !.ob_across_time = across,
                         !.seen = Append(@, [i |-> s.i + 1, time |-> coarse_time,
                                              price |-> coarse_price,
                                              fine |-> IF fine_key \in DOMAIN fine_book
                                                       THEN fine_book[fine_key] ELSE 0,
                                              before |-> IF coarse_price \in DOMAIN local_side
                                                         THEN local_side[coarse_price] ELSE 0,
                                              after |-> coarse_size,
                                              ob |-> temp_ob])]

\* the updates of the slices: bids in three seconds from EpochSec on at
\* prices 1.0 to 3.0 with sizes 0.0 to 2.0, two asks and a trade
RebinRows ==
    { Update(EpochSec + t, 0, FALSE, TRUE, price, size) :
        t \in 0..2, price \in 1..3, size \in 0..2 }
    \cup { Update(EpochSec + t, 0, FALSE, FALSE, 1, 1) : t \in 0..1 }
    \cup { Update(EpochSec + 1, 0, TRUE, TRUE, 1, 1) }

\* the slices of up to max updates handed to RebinnedOrderbook::from are
\* sorted by ts
RebinArgs(max) ==
    [ups : { v \in UNION { SlicesOf(RebinRows, n) : n \in 1..max } :
               \A i \in 1..(Len(v) - 1) : v[i].ts <= v[i + 1].ts },
     step_bins : {2, 3}, tick_bins : {2, 3}, m : {2}]

InitRebin ==
    /\ InitIdle
    /\ queue = NoQueue /\ calls = <<>> /\ qret = QCall("none", QRet("Unit", <<>>))
    /\ pool = NoPool /\ pret = NoPoolCall
    /\ arg \in RebinArgs(MaxUps)
    /\ st = RebinLocals(arg.ups, arg.step_bins, arg.tick_bins, arg.m)

\* one turn of the loop
RebinFromRow ==
    /\ st.fn = "RebinnedOrderbook::from" /\ ~st.done /\ st.i < Len(arg.ups)
    /\ st' = RebinRow(st, arg.ups[st.i + 1])
    /\ UNCHANGED <<file_vars, queue_vars, pool_vars, arg>>

\* the loop is over: every snapshot is cleaned and the book is returned
RebinFromReturn ==
    /\ st.fn = "RebinnedOrderbook::from" /\ ~st.done /\ st.i = Len(arg.ups)
    /\ st' = [st EXCEPT !.done = TRUE,
                        !.ob_across_time =
                            [k \in 1..Len(@) |-> [@[k] EXCEPT !.ob = clean(@)]]]
    /\ UNCHANGED <<file_vars, queue_vars, pool_vars, arg>>

NextRebin == RebinFromRow \/ RebinFromReturn

SpecRebin == InitRebin /\ [][NextRebin]_vars

(***************************************************************************)
(* Cxn::cmd on its TcpStream (src/src/storage/cxn.rs).  What the stream    *)
(* does during one call is drawn with the call: whether the write of the   *)
(* command fails, and for each read whether it fails or what it yields.    *)
(***************************************************************************)
\* the commands: a binary GET, the two textual GETs, and two others
Commands == {"GET ALL\n", "GET ALL AS CSV\n", "GET ALL AS JSON\n",
             "USE db\n", "CREATE db\n"}

\* command.starts_with("GET") && !contains("AS CSV") && !contains("AS JSON")
BinaryGet(command) == command = "GET ALL\n"

\* the texts a server sends after the length prefix; the last is no UTF-8
ServerTexts == {"OK", "ERR: DB db not found", "ERR: unknown command", "\\xff"}

\* what the stream does during one call.  byte is what read_u8 yields; a
\* body whose read_exact fails leaves the buffer as it was filled so far:
\* zeroes only ("none"), or the first seven bytes and zeroes ("part")
StreamRuns ==
    [write : {"ok", "fails"}, byte : {"fails", "0x00", "0x01"},
     size : {"ok", "fails"}, body : {"ok", "none", "part"},
     batch : {"ok", "fails"}, text : ServerTexts]

\* the buffer after read_exact, as from_utf8 sees it
BodyRead(io) ==
    IF io.body = "ok" THEN io.text
    ELSE IF io.body = "none" THEN "\\0.."
    ELSE CASE io.text = "ERR: DB db not found"  -> "ERR: DB\\0.."
           [] io.text = "ERR: unknown command" -> "ERR: un\\0.."
           [] io.text = "OK"                   -> "O\\0.."
           [] OTHER                            -> "\\xff"

\* res.contains("ERR: DB")
ContainsErrDb(res) == res \in {"ERR: DB db not found", "ERR: DB\\0.."}

\* what a call on a Cxn returns
CxnRet(kind, text) == [kind |-> kind, text |-> text]

\* Cxn::cmd
StreamCmd(command, io) ==
    IF io.byte = "fails" THEN CxnRet("ConnectionError", "")
    ELSE LET success == io.byte = "0x01"
         IN IF BinaryGet(command) /\ success
            THEN IF io.batch = "fails"
                 THEN CxnRet("Panic", "read_one_batch(..).unwrap()")
                 ELSE CxnRet("Ok", "[..]\n")
            ELSE IF io.size = "fails"
            THEN CxnRet("Panic", "read_u64(..).unwrap()")
            ELSE LET res == BodyRead(io)
                 IN IF res = "\\xff"
                    THEN CxnRet("Panic", "from_utf8(..).unwrap()")
                    ELSE IF success THEN CxnRet("Ok", res)
                    ELSE IF ContainsErrDb(res)
                    THEN IF res = "ERR: DB db not found"
                         THEN CxnRet("DBNotFoundError", "db")
                         ELSE CxnRet("Panic", "nth(2).unwrap()")
                    ELSE CxnRet("ServerError", res)

\* Cxn::new has connected
InitCxn ==
    /\ InitIdle
    /\ queue = NoQueue /\ calls = <<>> /\ qret = QCall("none", QRet("Unit", <<>>))
    /\ pool = NoPool /\ pret = NoPoolCall
    /\ arg = <<>>
    /\ st = [fn |-> "Cxn", done |-> FALSE, ret |-> CxnRet("Ok", "")]

\* cxn.cmd(command); after a panic no call follows
StreamCmdCall(command, io) ==
    /\ st.fn = "Cxn" /\ st.ret.kind # "Panic"
    /\ arg' = [command |-> command, io |-> io]
    /\ st' = [st EXCEPT !.done = TRUE, !.ret = StreamCmd(command, io)]
    /\ UNCHANGED <<file_vars, queue_vars, pool_vars>>

NextCxn == \E command \in Commands, io \in StreamRuns : StreamCmdCall(command, io)

SpecCxn == InitCxn /\ [][NextCxn]_vars

(***************************************************************************)
(* write_batches on updates at the top of the range of u64 and u32          *)
(* (file_format.rs).  A ts is carried as its distance below u64::MAX and a *)
(* seq as its distance below u32::MAX, so ref_ts + 0xFFFF and              *)
(* ref_seq + 0xF keep the width they have in the code: the sum overflows    *)
(* when the distance is smaller than the addend.                           *)
(***************************************************************************)
MaxTop == 2

\* ts = u64::MAX - ts_below, seq = u32::MAX - seq_below
TopUpdates ==
    [ts_below : {0, TS_DELTA_LIMIT - 1, TS_DELTA_LIMIT, TS_DELTA_LIMIT + 1},
     seq_below : {0, SEQ_DELTA_LIMIT - 1, SEQ_DELTA_LIMIT, SEQ_DELTA_LIMIT + 1}]

\* x + k for x = MAX - below: the sum as a distance below MAX, or, when it
\* overflows, the wrapped sum itself
AddTop(below, k) ==
    IF below >= k THEN [overflow |-> FALSE, v |-> below - k]
    ELSE [overflow |-> TRUE, v |-> k - 1 - below]

\* x >= sum for x = MAX - below; a wrapped sum is below every x of TopUpdates
GeTop(below, sum) == sum.overflow \/ below <= sum.v

\* the rollover test of write_batches, its operands evaluated left to right;
\* with overflow checks (checked) an overflowing sum panics, without them it
\* wraps
RolloverTop(elem, ref, count, checked) ==
    LET ts_sum  == AddTop(ref.ts_below, TS_DELTA_LIMIT)
        seq_sum == AddTop(ref.seq_below, SEQ_DELTA_LIMIT)
    IN IF count = 0 THEN "no"
       ELSE IF ts_sum.overflow /\ checked THEN "panic"
       ELSE IF GeTop(elem.ts_below, ts_sum) THEN "yes"
       ELSE IF seq_sum.overflow /\ checked THEN "panic"
       ELSE IF GeTop(elem.seq_below, seq_sum) THEN "yes"
       ELSE IF elem.seq_below > ref.seq_below THEN "yes"
       ELSE IF elem.ts_below > ref.ts_below THEN "yes"
       ELSE IF count = COUNT_LIMIT THEN "yes"
       ELSE "no"

\* what serialize_to_buffer keeps of elem: the u16 ts delta and the u8 seq delta
DeltasTop(elem, ref) ==
    [dts  |-> (ref.ts_below - elem.ts_below) % 65536,
     dseq |-> (ref.seq_below - elem.seq_below) % 256]

RECURSIVE WriteTopLoop(_, _, _, _, _, _)
\* the for loop of write_batches from element i on; out holds the batches
\* handed to the sink, recs the scratch buffer
WriteTopLoop(ups, i, ref, recs, out, checked) ==
    IF i > Len(ups)
    THEN [kind |-> "Ok", err |-> "",
          out |-> Append(out, [ref |-> ref, recs |-> recs])]
    ELSE LET elem == ups[i]
             r    == RolloverTop(elem, ref, Len(recs), checked)
             ref1 == IF r = "yes" THEN elem ELSE ref
             out1 == IF r = "yes" THEN Append(out, [ref |-> ref, recs |-> recs])
                     ELSE out
             recs1 == IF r = "yes" THEN <<>> ELSE recs
         IN IF r = "panic"
            THEN [kind |-> "Panic", err |-> "attempt to add with overflow",
                  out |-> out]
            ELSE IF elem.seq_below > ref1.seq_below
            THEN [kind |-> "Panic", err |-> "reference seqno is bigger",
                  out |-> out1]
            ELSE WriteTopLoop(ups, i + 1, ref1,
                              Append(recs1, DeltasTop(elem, ref1)), out1, checked)

RECURSIVE ReadTop(_)
\* the updates read_one_batch yields for the batches of out, in order
ReadTop(out) ==
    IF out = <<>> THEN <<>>
    ELSE [k \in 1..Len(out[1].recs) |->
             [ts_below  |-> out[1].ref.ts_below - out[1].recs[k].dts,
              seq_below |-> out[1].ref.seq_below - out[1].recs[k].dseq]]
           \o ReadTop(Tail(out))

TopVecs(max) == UNION { [1..n -> TopUpdates] : n \in 1..max }

InitTop ==
    /\ InitIdle
    /\ queue = NoQueue /\ calls = <<>> /\ qret = QCall("none", QRet("Unit", <<>>))
    /\ pool = NoPool /\ pret = NoPoolCall
    /\ arg \in [ups : TopVecs(MaxTop), checked : BOOLEAN]
    /\ st = [fn |-> "write_batches", done |-> FALSE, kind |-> "Ok", err |-> "",
             out |-> <<>>]

\* write_batches(wtr, ups.iter().peekable())
WriteTopCall ==
    LET w == WriteTopLoop(arg.ups, 1, arg.ups[1], <<>>, <<>>, arg.checked)
    IN /\ st.fn = "write_batches" /\ ~st.done
       /\ st' = [fn |-> "write_batches", done |-> TRUE, kind |-> w.kind,
                 err |-> w.err, out |-> w.out]
       /\ UNCHANGED <<file_vars, queue_vars, pool_vars, arg>>

NextTop == WriteTopCall

SpecTop == InitTop /\ [][NextTop]_vars

(***************************************************************************)
(* Histogram::from on slices with short timestamps                         *)
(* (packages/wstf_algorithms/src/histogram.rs).  Timestamps are carried in *)
(* seconds as in the rebinned orderbook: fill_digits pads a ts below       *)
(* EpochSec with zeros up to ten digits.                                   *)
(***************************************************************************)
MaxFill == 2              \* longest slice handed to Histogram::from

\* the timestamps of the slices: 0, short ones that fill_digits pads, and
\* full ones that it leaves alone
FillTs == {0, 1, 10, 101, 105, 1000, EpochSec, EpochSec + 2}

\* Histogram::from: the two histograms, or what the subtraction
\* max_ts - min_ts of new_boundaries does when min_ts > max_ts: with
\* overflow checks (checked) it panics, without them it wraps
HistogramFrom(ups, step_bins, tick_bins, m, checked) ==
    LET prices     == [i \in 1..Len(ups) |-> AsF64(ups[i].price)]
        price_hist == HistogramNew(prices, tick_bins, m)
        min_ts     == fill_digits(ups[1].ts)
        max_ts     == fill_digits(ups[Len(ups)].ts)
        kind       == IF price_hist.panic THEN "Panic"
                      ELSE IF min_ts <= max_ts THEN "Ok"
                      ELSE IF checked THEN "Panic"
                      ELSE "Wrapped"
    IN [fn |-> "Histogram::from", done |-> TRUE, kind |-> kind,
        err |-> IF kind = "Panic" /\ ~price_hist.panic
                THEN "attempt to subtract with overflow" ELSE "",
        min_ts |-> min_ts, max_ts |-> max_ts,
        price_hist |-> price_hist.boundaries,
        step_hist |-> IF kind = "Ok"
                      THEN new_boundaries(min_ts, max_ts, step_bins).boundaries
                      ELSE <<>>]

\* the slices of up to max updates, sorted by ts
FillArgs(max) ==
    [ups : { v \in UNION { [1..n -> { Update(ts, 0, FALSE, TRUE, 1, 1) :
                                        ts \in FillTs }] : n \in 1..max } :
               \A i \in 1..(Len(v) - 1) : v[i].ts <= v[i + 1].ts },
     step_bins : {2, 3}, tick_bins : {2}, m : {2}, checked : BOOLEAN]

InitFill ==
    /\ InitIdle
    /\ queue = NoQueue /\ calls = <<>> /\ qret = QCall("none", QRet("Unit", <<>>))
    /\ pool = NoPool /\ pret = NoPoolCall
    /\ arg \in FillArgs(MaxFill)
    /\ st = [fn |-> "Histogram::from", done |-> FALSE]

\* Histogram::from(ups, step_bins, tick_bins, m)
HistogramFromCall ==
    /\ st.fn = "Histogram::from" /\ ~st.done
    /\ st' = HistogramFrom(arg.ups, arg.step_bins, arg.tick_bins, arg.m,
                           arg.checked)
    /\ UNCHANGED <<file_vars, queue_vars, pool_vars, arg>>

NextFill == HistogramFromCall

SpecFill == InitFill /\ [][NextFill]_vars

(***************************************************************************)
(* write_batches called by several threads (file_format.rs).  BUF is the   *)
(* scratch buffer of the process with its mutex: the thread that holds the *)
(* lock (owner, 0 for none), whether a holder has panicked (poisoned), and *)
(* the bytes written into the buffer so far (data).  Each thread has its   *)
(* own sink (out) and its own locals.                                      *)
(***************************************************************************)
Threads == 2

\* what a thread hands to write_batches: nothing, one batch, two batches
ThreadVecs ==
    { <<>>,
      <<UpdateAt(1, 0)>>,
      <<UpdateAt(1, 0), UpdateAt(3, 0)>>,
      <<UpdateAt(1, 0), UpdateAt(1, 15)>>,
      <<UpdateAt(3, 0), UpdateAt(65537, 0)>> }

ThreadStart ==
    [pc |-> "start", i |-> 0, ref_ts |-> 0, ref_seq |-> 0, count |-> 0,
     pos |-> 0, out |-> <<>>, err |-> ""]

InitThreads ==
    /\ InitIdle
    /\ queue = NoQueue /\ calls = <<>> /\ qret = QCall("none", QRet("Unit", <<>>))
    /\ pool = NoPool /\ pret = NoPoolCall
    /\ arg \in [1..Threads -> ThreadVecs]
    /\ st = [fn |-> "threads", done |-> FALSE,
             BUF |-> [owner |-> 0, poisoned |-> FALSE, data |-> <<>>],
             th |-> [t \in 1..Threads |-> ThreadStart]]

\* the thread's panic unwinds: a lock guard it holds is dropped, which
\* poisons the mutex
Unwind(s, t, e) ==
    [s EXCEPT !.th[t].pc = "panicked", !.th[t].err = e,
              !.BUF.poisoned = @ \/ s.BUF.owner = t,
              !.BUF.owner = IF @ = t THEN 0 ELSE @]

\* BUF.lock().unwrap(): blocks while another thread holds the lock; a
\* poisoned mutex makes lock() return Err, on which unwrap panics
LockStep(t) ==
    /\ st.fn = "threads" /\ st.th[t].pc = "start"
    /\ st.BUF.owner = 0
    /\ st' = IF st.BUF.poisoned THEN Unwind(st, t, "PoisonError")
             ELSE [st EXCEPT !.BUF.owner = t, !.th[t].pc = "peek"]
    /\ UNCHANGED <<file_vars, queue_vars, pool_vars, arg>>

\* Cursor::new(&mut c[..]); ups.peek().unwrap(); ref_ts, ref_seq, count
PeekStep(t) ==
    /\ st.fn = "threads" /\ st.th[t].pc = "peek"
    /\ st' = IF arg[t] = <<>>
             THEN Unwind(st, t, "unwrap on a None value")
             ELSE [st EXCEPT !.th[t].pc = "loop", !.th[t].i = 1,
                             !.th[t].ref_ts = arg[t][1].ts,
                             !.th[t].ref_seq = arg[t][1].seq,
                             !.th[t].count = 0, !.th[t].pos = 0]
    /\ UNCHANGED <<file_vars, queue_vars, pool_vars, arg>>

\* one turn of `for elem in ups`: on a rollover the header and the scratch
\* bytes go to the sink and the cursor is rewound; elem is serialized into
\* the scratch buffer at the cursor
ElemStep(t) ==
    LET me   == st.th[t]
        elem == arg[t][me.i]
        roll == Rollover(elem, me.ref_ts, me.ref_seq, me.count)
        ref_ts  == IF roll THEN elem.ts ELSE me.ref_ts
        ref_seq == IF roll THEN elem.seq ELSE me.ref_seq
        pos     == IF roll THEN 0 ELSE me.pos
        out     == IF roll
                   THEN me.out \o write_reference(me.ref_ts, me.ref_seq, me.count)
                               \o Slice(st.BUF.data, 0, me.pos)
                   ELSE me.out
    IN /\ st.fn = "threads" /\ me.pc = "loop" /\ me.i <= Len(arg[t])
       /\ st' = IF SerializePanics(elem, ref_seq)
                THEN Unwind([st EXCEPT !.th[t].out = out], t, "reference seqno")
                ELSE [st EXCEPT
                        !.BUF.data = WriteAt(@, pos,
                                       serialize_to_buffer(elem, ref_ts, ref_seq)),
                        !.th[t].ref_ts = ref_ts, !.th[t].ref_seq = ref_seq,
                        !.th[t].count = (IF roll THEN 0 ELSE me.count) + 1,
                        !.th[t].pos = pos + RECORD_BYTES,
                        !.th[t].out = out,
                        !.th[t].i = me.i + 1]
       /\ UNCHANGED <<file_vars, queue_vars, pool_vars, arg>>

\* after the loop: the last header and the scratch bytes go to the sink;
\* the return drops the guard, which unlocks BUF
ReturnStep(t) ==
    LET me == st.th[t]
    IN /\ st.fn = "threads" /\ me.pc = "loop" /\ me.i > Len(arg[t])
       /\ st' = [st EXCEPT
                   !.th[t].out = @ \o write_reference(me.ref_ts, me.ref_seq, me.count)
                                   \o Slice(st.BUF.data, 0, me.pos),
                   !.th[t].pc = "done",
                   !.BUF.owner = 0]
       /\ UNCHANGED <<file_vars, queue_vars, pool_vars, arg>>

NextThreads ==
    \E t \in 1..Threads : LockStep(t) \/ PeekStep(t) \/ ElemStep(t) \/ ReturnStep(t)

SpecThreads == InitThreads /\ [][NextThreads]_vars

(***************************************************************************)
(* Properties                                                              *)
(***************************************************************************)
\* the latest encode was given a non-empty vector and a symbol that fits
Encoded == enc.ups # <<>> /\ Len(enc.symbol) <= SYMBOL_LEN

\* the records decode(file, None) returns
Records(f) == read_all(f, MAIN_OFFSET, <<>>).ups

TsWithin(up, a, b) == a <= up.ts /\ up.ts <= b

Within(v, a, b) == SelectSeq(v, LAMBDA up : TsWithin(up, a, b))

C2_RangeComplete ==
    (op.name = "range" /\ op.min_ts <= op.max_ts /\ Encoded /\ napp = 0)
        => (/\ ret.kind = "Ok"
            /\ Within(ret.ups, op.min_ts, op.max_ts)
                 = Within(enc.ups, op.min_ts, op.max_ts))

\* C4: the upper bound of a range scan is inclusive: every record of the
\* file with ts = b is in the result of range(a, b), a <= b.
C4_UpperInclusive ==
    (op.name = "range" /\ op.min_ts <= op.max_ts /\ Encoded)
        => (/\ ret.kind = "Ok"
            /\ Within(ret.ups, op.max_ts, op.max_ts)
                 = Within(Records(file), op.max_ts, op.max_ts))

\* C5: after encode of a non-empty sorted vector and any appends of sorted
\* tails, read_meta agrees with the body: nums is the number of records
\* decode returns, min_ts the ts of the first and max_ts the ts of the last.
C5_HeaderAgrees ==
    (op.name = "read_meta" /\ Encoded)
        => (/\ ret.kind = "Ok"
            /\ ret.meta.nums = Len(Records(file))
            /\ ret.meta.min_ts = Records(file)[1].ts
            /\ ret.meta.max_ts = Records(file)[Len(Records(file))].ts
            /\ \A i \in 1..Len(Records(file)) :
                  Records(file)[i].ts <= ret.meta.max_ts)

C5_Witness ==
    /\ op.name = "read_meta" /\ Encoded /\ napp >= 1
    /\ ret.kind = "Ok"
    /\ ret.meta.nums > Len(enc.ups) + 1
    /\ Records(file)[Len(enc.ups) + 1].ts < ret.meta.max_ts
    /\ ret.meta.max_ts = Records(file)[Len(Records(file))].ts

\* the updates of ups later than the max_ts the header of f holds
Later(ups, f) == SelectSeq(ups, LAMBDA up : up.ts > read_max_ts(f))

\* every update of ups is later than the max_ts the header of f holds
AllNewer(ups, f) == \A i \in 1..Len(ups) : ups[i].ts > read_max_ts(f)

\* C6: append of a sorted vector T whose ts all exceed the file's max_ts
\* makes decode return the old records followed by T, sorted by (ts, seq).
C6_AppendConcat ==
    (op.name = "append" /\ Encoded /\ op.ups # <<>> /\ AllNewer(op.ups, before))
        => (/\ ret.kind = "Ok"
            /\ Records(file) = Records(before) \o op.ups
            /\ IsSorted(Records(file)))

C6_Witness ==
    /\ op.name = "append" /\ Encoded /\ Len(op.ups) >= 2
    /\ AllNewer(op.ups, before)
    /\ Records(file) = Records(before) \o op.ups

\* C7: append of an empty vector, or of one in which no update has
\* ts > max_ts, returns success and leaves every byte of the file unchanged.
C7_AppendNoop ==
    (op.name = "append" /\ Encoded /\ Later(op.ups, before) = <<>>)
        => (ret.kind = "Ok" /\ file = before)

C7_Witness ==
    /\ op.name = "append" /\ Encoded /\ op.ups # <<>>
    /\ \A i \in 1..Len(op.ups) : op.ups[i].ts <= read_max_ts(before)
    /\ ret.kind = "Ok" /\ file = before

\* some update of ups is not later than the max_ts the header of f holds
SomeStale(ups, f) == \E i \in 1..Len(ups) : ups[i].ts <= read_max_ts(f)

\* C8 as stated: an append of a vector that contains a record with
\* ts <= max_ts fails (the cannot-interleave failure).
C8_StaleAppendFails ==
    (op.name = "append" /\ Encoded /\ SomeStale(op.ups, before))
        => ret.kind \in {"Err", "Panic"}

\* C8 amended: an append of a vector that contains records with
\* ts <= max_ts succeeds; those records are dropped and exactly the records
\* with ts > max_ts are added after the old ones.
C8_StaleAppendFilters ==
    (op.name = "append" /\ Encoded /\ SomeStale(op.ups, before))
        => (/\ ret.kind = "Ok"
            /\ Records(file) = Records(before) \o Later(op.ups, before))

C8_Witness ==
    /\ op.name = "append" /\ Encoded /\ SomeStale(op.ups, before)
    /\ ~AllNewer(op.ups, before)
    /\ Later(op.ups, before) # <<>>
    /\ ret.kind = "Ok"
    /\ Len(Records(file)) = Len(Records(before)) + 1

\* C3: for a <= b, every record range(a, b) returns from a file produced by
\* encode of a sorted vector and appends satisfies a <= ts <= b, the batches
\* kept whole included.
C3_RangeSound ==
    (op.name = "range" /\ op.min_ts <= op.max_ts /\ Encoded /\ ret.kind = "Ok")
        => \A i \in 1..Len(ret.ups) : TsWithin(ret.ups[i], op.min_ts, op.max_ts)

RECURSIVE BatchesFrom(_, _)
\* the batches of the body from pos on, each as the records it holds
BatchesFrom(f, pos) ==
    IF Avail(f, pos) < 1 \/ f[pos + 1] # 1 THEN <<>>
    ELSE LET b == read_one_batch(f, pos)
         IN IF b.res.kind # "Ok" THEN <<>>
            ELSE <<b.res.ups>> \o BatchesFrom(f, b.pos)

Batches(f) == BatchesFrom(f, MAIN_OFFSET)

RECURSIVE Flatten(_)
Flatten(bs) == IF bs = <<>> THEN <<>> ELSE Head(bs) \o Flatten(Tail(bs))

Min(a, b) == IF a < b THEN a ELSE b

\* C10: a read with batch limit n >= 1 consumes at most n batches:
\* decode(file, Some(n)) returns the records of the first min(n, total)
\* batches, and every chunk of WSTFBufReader::new(file, n) holds the records
\* of at most n consecutive batches.
C10_AtMostNBatches ==
    /\ (op.name = "decode" /\ op.limit.some /\ op.limit.n >= 1 /\ Encoded)
          => (/\ ret.kind = "Ok"
              /\ ret.ups = Flatten(SubSeq(Batches(file), 1,
                                          Min(op.limit.n, Len(Batches(file))))))
    /\ (op.name = "next" /\ rdr.batch_size >= 1 /\ Encoded /\ ret.kind = "Some")
          => \E i \in 1..Len(Batches(file)), m \in 1..rdr.batch_size :
                /\ i + m - 1 <= Len(Batches(file))
                /\ ret.ups = Flatten(SubSeq(Batches(file), i, i + m - 1))

RECURSIVE HeadersFrom(_, _, _)
\* the batch headers written from pos on, read off the bytes: each with the
\* index (from first) of the first record that follows it
HeadersFrom(f, pos, first) ==
    IF Avail(f, pos) < 1 + BATCH_META_BYTES THEN <<>>
    ELSE LET count == FromBE(Slice(f, pos + 13, 2))
         IN <<[ref_ts  |-> FromBE(Slice(f, pos + 1, 8)),
               ref_seq |-> FromBE(Slice(f, pos + 9, 4)),
               count   |-> count,
               first   |-> first]>>
              \o HeadersFrom(f, pos + 1 + BATCH_META_BYTES + count * RECORD_BYTES,
                             first + count)

\* the records the latest encode or append handed to write_batches
Written ==
    IF op.name = "encode" THEN op.ups
    ELSE Later(op.ups, before)

\* where the latest encode or append started to write batches
WrittenAt ==
    IF op.name = "encode" THEN MAIN_OFFSET
    ELSE IF read_len(before) = 0 THEN MAIN_OFFSET ELSE Len(before)

\* the headers of the batches the latest encode or append wrote
WrittenHeaders ==
    IF Written = <<>> THEN <<>> ELSE HeadersFrom(file, WrittenAt, 1)

\* C9: every batch written by encode or append, whatever the input order,
\* has 1 <= count <= 0xFFFF, holds only records whose ts is ref_ts + 0..0xFFFF
\* and whose seq is ref_seq + 0..0xF, and the batches hold every record given.
C9_BatchBounds ==
    (op.name \in {"encode", "append"} /\ ret.kind = "Ok")
        => LET hs == WrittenHeaders
           IN /\ \A j \in 1..Len(hs) :
                    /\ hs[j].count >= 1
                    /\ hs[j].count <= COUNT_LIMIT
                    /\ \A k \in hs[j].first..(hs[j].first + hs[j].count - 1) :
                          /\ k <= Len(Written)
                          /\ Written[k].ts - hs[j].ref_ts \in 0..TS_DELTA_LIMIT
                          /\ Written[k].seq - hs[j].ref_seq \in 0..SEQ_DELTA_LIMIT
              /\ (IF hs = <<>> THEN 0
                  ELSE hs[Len(hs)].first + hs[Len(hs)].count - 1) = Len(Written)

\* an encode of a vector whose ts goes backwards: one batch for each record
C9_Witness ==
    /\ op.name = "encode" /\ ret.kind = "Ok"
    /\ Len(op.ups) = 2
    /\ op.ups[2].ts < op.ups[1].ts
    /\ Len(WrittenHeaders) = 2
    /\ WrittenHeaders[1].count = 1
    /\ WrittenHeaders[2].ref_ts = op.ups[2].ts

\* v is a prefix of w
IsPrefix(v, w) == Len(v) <= Len(w) /\ v = SubSeq(w, 1, Len(v))

RECURSIVE WholeFrom(_, _)
\* every batch from pos up to the first byte that is not a marker is whole
WholeFrom(f, pos) ==
    IF Avail(f, pos) < 1 \/ f[pos + 1] # 1 THEN TRUE
    ELSE IF Avail(f, pos) < 1 + BATCH_META_BYTES THEN FALSE
    ELSE LET end == pos + 1 + BATCH_META_BYTES
                      + FromBE(Slice(f, pos + 13, 2)) * RECORD_BYTES
         IN end <= Len(f) /\ WholeFrom(f, end)

\* the magic value of f is in place and the batches of its body are whole
WholeBatches(f) ==
    /\ Len(f) >= MAIN_OFFSET
    /\ SubSeq(f, 1, Len(MAGIC_VALUE)) = MAGIC_VALUE
    /\ WholeFrom(f, MAIN_OFFSET)

\* C11: the body ends at the first byte that is not 0x01 where a batch marker
\* is expected: decode returns the records before that byte without error
\* and never a record after it.
C11_BodyEndsAtNonMarker ==
    (op.name = "decode" /\ WholeBatches(file))
        => (/\ ret.kind = "Ok"
            /\ IsPrefix(ret.ups, Flatten(Batches(file)))
            /\ (~op.limit.some => ret.ups = Flatten(Batches(file))))

\* C12: iterating WSTFBufReader::new(file, N), N >= 1, over a well-formed
\* file comes to an end (next returns None) and the chunks yielded until
\* then, put together, are decode(file, None): nothing skipped, nothing twice.
C12_IterEqualsDecode ==
    (op.name = "new" /\ ret.kind = "Ok" /\ op.limit.n >= 1 /\ Encoded)
        ~> (/\ op.name = "next" /\ ret.kind = "None"
            /\ Flatten(rdr.got) = Records(file))

C12_Witness ==
    /\ op.name = "next" /\ ret.kind = "None" /\ Encoded
    /\ rdr.batch_size >= 1
    /\ Len(rdr.got) >= 2
    /\ Flatten(rdr.got) = Records(file)

\* the file the latest call found
Found == IF op.name = "append" THEN before ELSE file

\* C13: decode, read_meta, get_range_in_file and append on a file whose first
\* five bytes are not the magic value return an InvalidData error; they do
\* not abort.
C13_BadMagicIsError ==
    (/\ op.name \in {"decode", "read_meta", "range", "append"}
     /\ exists
     /\ Len(Found) >= Len(MAGIC_VALUE)
     /\ SubSeq(Found, 1, Len(MAGIC_VALUE)) # MAGIC_VALUE)
        => (ret.kind = "Err" /\ ret.err = "InvalidData")

\* C14: encode with an empty vector writes nothing: a file present at the
\* path keeps its contents.
C14_EmptyEncodeKeepsFile ==
    (op.name = "encode" /\ op.ups = <<>> /\ before # <<>>)
        => file = before

\* every call made on the queue so far was a push
OnlyPushes == \A i \in 1..Len(calls) : calls[i] = "push"

\* the n most recently pushed of the values 1..l, newest first
NewestFirst(l, n) == [i \in 1..n |-> l - i + 1]

\* C15: for any capacity C >= 1 and any L pushes with no pops, len() is
\* min(L, C) and iter yields the min(L, C) most recently pushed values, newest
\* first, starting with the last pushed one.
C15_PushesNewestFirst ==
    OnlyPushes =>
        /\ qret.call = "len" => qret.val = <<Min(Len(calls), queue.capacity)>>
        /\ qret.call = "iter" =>
              /\ qret.kind = "Items"
              /\ qret.val = NewestFirst(Len(calls), Min(Len(calls), queue.capacity))

C15_Witness ==
    /\ OnlyPushes /\ qret.call = "iter"
    /\ queue.capacity >= 2 /\ Len(calls) > queue.capacity + 1
    /\ qret.val[1] = Len(calls)

\* h up to its last call
Earlier(h) == SubSeq(h, 1, Len(h) - 1)

\* the values a queue of capacity c holds after the calls h, oldest first, when
\* push drops the oldest of c and pop takes the newest
RECURSIVE Retained(_, _)
Retained(h, c) ==
    IF h = <<>> THEN <<>>
    ELSE LET l == Retained(Earlier(h), c)
             call == h[Len(h)]
         IN CASE call = "push" ->
                   IF Len(l) = c THEN Append(Tail(l), PushCount(h))
                   ELSE Append(l, PushCount(h))
              [] call = "pop" -> IF l = <<>> THEN l ELSE Earlier(l)
              [] OTHER -> <<>>

PushAndPopOnly == \A i \in 1..Len(calls) : calls[i] # "clear"

\* C16: after any interleaved pushes and pops, pop returns the most recently
\* pushed element that has been neither popped nor overwritten, and None
\* exactly when no such element remains.
C16_PopNewest ==
    (qret.call = "pop" /\ PushAndPopOnly) =>
        LET l == Retained(Earlier(calls), queue.capacity)
        IN IF l = <<>> THEN qret.kind = "None"
           ELSE qret.kind = "Some" /\ qret.val = <<l[Len(l)]>>

Elements(v) == { v[i] : i \in 1..Len(v) }

\* C17: after any interleaved pushes and pops, a push onto a queue that stores
\* C elements discards exactly the oldest of them and keeps the other C - 1.
C17_PushDropsOldest ==
    [][(/\ qret'.call = "push" /\ calls' # calls /\ PushAndPopOnly
        /\ Len(Retained(calls, queue.capacity)) = queue.capacity
        /\ Elements(queue.data) = Elements(Retained(calls, queue.capacity)))
          => Elements(queue'.data)
               = Elements(Tail(Retained(calls, queue.capacity)))
                   \cup { PushCount(calls') }]_vars

\* the queue the calls h leave when each clear is a fresh construction instead
RECURSIVE Fresh(_, _)
Fresh(h, c) ==
    IF h = <<>> THEN with_capacity(c)
    ELSE LET call == h[Len(h)]
         IN CASE call = "push" -> push(Fresh(Earlier(h), c), PushCount(h))
              [] call = "pop" -> pop(Fresh(Earlier(h), c)).q
              [] OTHER -> with_capacity(c)

\* what the caller can observe of q
Observed(q) == <<len(q), iter(q), pop(q).ret>>

Cleared == \E i \in 1..Len(calls) : calls[i] = "clear"

\* C18: after clear(), the queue is observationally equivalent to a freshly
\* constructed queue of the same capacity: push, pop, len and iter return the
\* same results on both from then on, although clear leaves the reverse cursor.
C18_ClearIsFresh ==
    Cleared =>
        /\ Observed(queue) = Observed(Fresh(calls, queue.capacity))
        /\ qret.call = "pop" =>
              qret.val = pop(Fresh(Earlier(calls), queue.capacity)).ret.val

\* a push after a clear that found the reverse cursor raised: the cursor is
\* still above the fresh queue's
C18_Witness ==
    /\ Cleared /\ qret.call = "push"
    /\ queue.reverse_idx > Fresh(calls, queue.capacity).reverse_idx
    /\ Observed(queue) = Observed(Fresh(calls, queue.capacity))

\* the command strings of the insert handed to the latest call, as far as they
\* were written, with the answers they got
OwnStrings ==
    SelectSeq(pret.sent, LAMBDA e : e.text.kind = "INSERT"
                                      /\ e.text.id = pret.found.ncalls + 1)

FailedStrings == SelectSeq(OwnStrings, LAMBDA e : e.res # "Ok")

\* the pushes the latest call made onto the retry queue
Pushes == SelectSeq(pret.events, LAMBDA e : e.call = "push")

PushedOnce ==
    /\ Len(Pushes) = 1
    /\ Pushes[1].val = <<InsertCommand(pret.found.ncalls + 1, pret.strings)>>

\* C19: when a command string of insert fails with ConnectionError or with
\* DBNotFound, the insert is pushed onto the retry queue exactly once and that
\* error is returned, after the connection at that index has been replaced,
\* respectively after CREATE <db> has been issued; when it fails with another
\* error nothing is pushed and the error is returned.
C19_FailedInsertBuffered ==
    (pret.call = "insert" /\ FailedStrings # <<>>) =>
        LET e == FailedStrings[1]
        IN /\ pret.res = e.res
           /\ e.res = "ConnectionError" =>
                 PushedOnce /\ pool.cxns[e.at + 1] # e.cxn
           /\ e.res = "DBNotFound" =>
                 /\ PushedOnce
                 /\ \E i \in 1..Len(pret.sent) : pret.sent[i].text.kind = "CREATE"
           /\ e.res = "ServerError" => Pushes = <<>>

\* every command string of the insert handed to the latest call was accepted
OwnAccepted ==
    /\ pret.call = "insert"
    /\ Len(OwnStrings) = pret.strings
    /\ FailedStrings = <<>>

\* the pops the latest call made on the retry queue
Pops == SelectSeq(pret.events, LAMBDA e : e.call = "pop")

\* C20: when every command string of an insert succeeds, the pool pops one
\* buffered insert, the most recently buffered one, and re-sends it through
\* insert; the chain of retries ends, and buffered inserts are retried newest
\* first.
C20_RetriesNewestFirst ==
    OwnAccepted =>
        /\ pret.res # "Unfinished"
        /\ pret.events # <<>> /\ pret.events[1].call = "pop"
        /\ \A i \in 1..Len(Pops) :
              Pops[i].val = IF Pops[i].held = <<>> THEN <<>>
                            ELSE <<Pops[i].held[Len(Pops[i].held)]>>
        /\ pret.retried = [i \in 1..Len(pret.retried) |-> Pops[i].val[1]]
        /\ \A i \in 1..Len(pret.retried) :
              \E k \in 1..Len(pret.sent) :
                  pret.sent[k].text = CommandString("INSERT", pret.retried[i].id, 1)

\* C25: when the range scan reaches the last batch of the file (the read of
\* the next batch marker hits the end of the file), it returns the records of
\* that batch with min_ts <= ts <= max_ts: they are not dropped.
C25_LastBatchReturned ==
    (op.name = "range" /\ op.min_ts <= op.max_ts /\ Encoded)
        => LET bs == Batches(file)
               last == Within(bs[Len(bs)], op.min_ts, op.max_ts)
           IN /\ ret.kind = "Ok"
              /\ \A i \in 1..Len(last) :
                    \E k \in 1..Len(ret.ups) : ret.ups[k] = last[i]

\* the headers of all batches of the file
Headers == HeadersFrom(file, MAIN_OFFSET, 1)

\* C26: in a file produced by encode of a sorted vector and any appends of
\* sorted vectors, ref_ts is nondecreasing across consecutive batches and
\* every record's ts lies between the ref_ts of its batch and the ref_ts of
\* the next batch, inclusive.
C26_RefTsMonotone ==
    (exists /\ Encoded /\ AfterWrite /\ ret.kind = "Ok")
        => LET hs == Headers
               recs == Records(file)
           IN \A j \in 1..Len(hs) :
                 /\ j < Len(hs) => hs[j].ref_ts <= hs[j + 1].ref_ts
                 /\ \A k \in hs[j].first..(hs[j].first + hs[j].count - 1) :
                       /\ hs[j].ref_ts <= recs[k].ts
                       /\ j < Len(hs) => recs[k].ts <= hs[j + 1].ref_ts

\* an append that added a batch behind one of two records
C26_Witness ==
    /\ exists /\ Encoded /\ op.name = "append" /\ ret.kind = "Ok" /\ napp >= 1
    /\ Len(Headers) >= 2
    /\ Headers[1].count = 2
    /\ Headers[Len(Headers)].ref_ts > Headers[1].ref_ts

\* C27: for every batch count in 1..0xFFFF the range scan advances exactly
\* count * 12 bytes from the end of the header to the next batch marker and
\* rewinds count * 12 + 15 bytes; the arithmetic does not wrap or overflow.
C27_SkipIsExact ==
    (op.name = "range" /\ op.min_ts <= op.max_ts /\ Encoded)
        => LET count == FromBE(Slice(file, MAIN_OFFSET + 13, 2))
           IN count \in 1..COUNT_LIMIT
                 => /\ bytes_to_skip(count) = count * 12
                    /\ ~(ret.kind = "Panic"
                         /\ ret.err = "attempt to multiply with overflow")

\* the queue was filled by pushes before any pop, and never cleared
FilledFirst ==
    /\ PushAndPopOnly
    /\ Len(calls) >= queue.capacity
    /\ \A i \in 1..queue.capacity : calls[i] = "push"

\* C28: once a queue has been filled by C or more pushes with no pop before it
\* became full, pushes and pops behave as a bounded LIFO over the retained
\* elements: pops return the newest remaining element, None once none
\* remains, no element twice, and later pushes are popped before older ones.
C28_FilledIsLifo ==
    (qret.call = "pop" /\ FilledFirst) =>
        LET l == Retained(Earlier(calls), queue.capacity)
        IN IF l = <<>> THEN qret.kind = "None"
           ELSE qret.kind = "Some" /\ qret.val = <<l[Len(l)]>>

\* a pop that returns an element pushed after earlier pops of the full queue
C28_Witness ==
    /\ qret.call = "pop" /\ FilledFirst /\ queue.capacity >= 2
    /\ \E i \in (queue.capacity + 1)..(Len(calls) - 2) :
          calls[i] = "pop" /\ calls[i + 1] = "push"
    /\ calls[Len(calls) - 1] = "pop"
    /\ qret.kind = "Some"

\* the size of the latest update before row i at the same price, 0.0 if none
SizeBefore(ups, i) ==
    LET same == { j \in 1..(i - 1) : ups[j].price = ups[i].price }
    IN IF same = {} THEN 0
       ELSE ups[CHOOSE j \in same : \A k \in same : k <= j].size

\* the map the claim assigns to row i
EventKind(ups, i) ==
    IF ups[i].is_trade THEN "trades"
    ELSE IF F32Eq(ups[i].size, 0) \/ F32Le(ups[i].size, SizeBefore(ups, i))
    THEN "cancelled"
    ELSE "created"

RECURSIVE RowsOf(_, _, _, _)
\* the rows among the first n of kind k with timestamp ts, in input order
RowsOf(ups, n, k, ts) ==
    IF n = 0 THEN <<>>
    ELSE IF ups[n].ts = ts /\ EventKind(ups, n) = k
    THEN Append(RowsOf(ups, n - 1, k, ts), ups[n])
    ELSE RowsOf(ups, n - 1, k, ts)

\* map holds exactly the rows of kind k, under their ts and in input order
HoldsKind(map, ups, k) ==
    /\ DOMAIN map = { ups[i].ts : i \in { j \in 1..Len(ups) : EventKind(ups, j) = k } }
    /\ \A ts \in DOMAIN map : map[ts] = RowsOf(ups, Len(ups), k, ts)

\* C22: Events::from places every input update in exactly one of the three
\* maps, under its own ts and in input order: in trades iff is_trade,
\* otherwise in cancelled iff size == 0 or size <= the size of the latest
\* earlier update at the same price (0 if none), otherwise in created.
C22_EventsPartition ==
    (st.fn = "Events::from" /\ st.done)
        => /\ ~st.panic
           /\ HoldsKind(st.trades, arg, "trades")
           /\ HoldsKind(st.cancelled, arg, "cancelled")
           /\ HoldsKind(st.created, arg, "created")

\* no size of the slice is a NaN
NoNaN(ups) == \A i \in 1..Len(ups) : ~F32IsNaN(ups[i].size)

\* the same for slices in which no size is a NaN
EventsPartitionOfNumbers == NoNaN(arg) => C22_EventsPartition

\* the largest boundary <= x, for x not below the first boundary
FloorBoundary(bs, x) ==
    LET below == { bs[i] : i \in { j \in 1..Len(bs) : bs[j] <= x } }
    IN CHOOSE b \in below : \A c \in below : c <= b

\* C23 as stated: for step_bins >= 2 and min_ts <= max_ts, to_bin(x) is the
\* largest boundary <= x for boundaries[0] <= x < boundaries[N-1], and None
\* for x < boundaries[0] or x >= boundaries[N-1].
C23_ToBinFloor ==
    (st.fn = "Histogram" /\ st.done)
        => LET bs == st.boundaries
               x  == st.price
           IN IF x < bs[1] \/ x >= bs[Len(bs)]
              THEN st.bin = NoLimit
              ELSE st.bin = Some(FloorBoundary(bs, x))

\* C23: when max_ts - min_ts >= N - 1 (bucket_size >= 1, the boundaries
\* increase strictly) to_bin(x) is the largest boundary <= x for
\* boundaries[0] <= x < boundaries[N-1] and None for x < boundaries[0] or
\* x >= boundaries[N-1]; when max_ts - min_ts < N - 1 every boundary equals
\* min_ts, to_bin(min_ts) is Some(min_ts) and to_bin(x) is None for any other x.
C23_ToBinFloorOrCollapsed ==
    (st.fn = "Histogram" /\ st.done)
        => LET bs == st.boundaries
               x  == st.price
           IN IF arg[2] - arg[1] >= arg[3] - 1
              THEN /\ \A i \in 1..(Len(bs) - 1) : bs[i] < bs[i + 1]
                   /\ IF x < bs[1] \/ x >= bs[Len(bs)]
                      THEN st.bin = NoLimit
                      ELSE st.bin = Some(FloorBoundary(bs, x))
              ELSE /\ \A i \in 1..Len(bs) : bs[i] = AsF64(arg[1])
                   /\ st.bin = IF x = AsF64(arg[1]) THEN Some(x) ELSE NoLimit

\* a price strictly inside the last but one bin of three
C23_Witness ==
    /\ st.fn = "Histogram" /\ st.done
    /\ Len(st.boundaries) = 4
    /\ st.boundaries[2] < st.price /\ st.price < st.boundaries[3]
    /\ st.bin = Some(st.boundaries[2])

\* C24: for every update u and every book name of 1 to 64 bytes,
\* decode_insert_into(encode_insert_into(Some(name), u)) returns
\* (Some(u), Some(name)); with no book name the length field is 0, the name
\* is omitted and decoding returns (Some(u), None).
C24_InsertRoundTrip ==
    (st.fn = "insert_into" /\ st.done)
        => /\ (arg.book_name.some /\ Len(arg.book_name.n) \in 1..64)
                => st.out = Decoded("Some", Some(arg.update), arg.book_name)
           /\ ~arg.book_name.some
                => /\ st.out = Decoded("Some", Some(arg.update), NoBytes)
                   /\ Slice(st.buf.n, 2, 8) = <<0, 0, 0, 0, 0, 0, 0, 0>>
                   /\ Len(st.buf.n) = 2 + 8 + 21 + 1

\* a name of 64 bytes came back with a trade
C24_Witness ==
    /\ st.fn = "insert_into" /\ st.done
    /\ arg.book_name.some /\ Len(arg.book_name.n) = 64
    /\ arg.update.is_trade /\ arg.update.size # arg.update.price
    /\ st.out.kind = "Some" /\ st.out.book_name = arg.book_name

\* the running RebinnedOrderbook::from has not panicked
Rebinning == st.fn = "RebinnedOrderbook::from" /\ ~st.panic

\* the last size stored for the price and side of entry k of seen by an
\* earlier update that got past the two bins, 0 if there is none
OldFineSize(k) ==
    LET up   == arg.ups[st.seen[k].i]
        same == { j \in 1..(k - 1) :
                    /\ arg.ups[st.seen[j].i].price = up.price
                    /\ arg.ups[st.seen[j].i].is_bid = up.is_bid }
    IN IF same = {} THEN 0
       ELSE arg.ups[st.seen[CHOOSE j \in same : \A m \in same : m <= j].i].size

\* C29: in RebinnedOrderbook::from each non-trade update that maps to a time
\* bin and a price bin changes the size of its coarse price cell by exactly
\* new_size - old_fine_size, old_fine_size being the last size stored for
\* that exact price on that side (0 if the price is not in the fine book),
\* with the result floored at 0.
C29_CoarseDelta ==
    Rebinning =>
        \A k \in 1..Len(st.seen) :
            LET e      == st.seen[k]
                moved  == e.before + arg.ups[e.i].size - OldFineSize(k)
            IN e.after = IF moved < 0 THEN 0 ELSE moved

\* the coarse time bins of the non-trade updates among the first n, in
\* first-seen order
RECURSIVE TimeBins(_)
TimeBins(n) ==
    IF n = 0 THEN <<>>
    ELSE LET up   == arg.ups[n]
             bin  == to_bin(st.step_hist, AsF64(up.ts))
             rest == TimeBins(n - 1)
         IN IF up.is_trade \/ ~bin.some
               \/ (\E k \in 1..Len(rest) : rest[k] = bin.n)
            THEN rest
            ELSE Append(rest, bin.n)

\* the running coarse book left by the last update mapped to time bin t
BookAfterLast(t) ==
    LET at == { k \in 1..Len(st.seen) : st.seen[k].time = t }
    IN st.seen[CHOOSE k \in at : \A m \in at : m <= k].ob

\* C30: for updates sorted by ts, RebinnedOrderbook::from outputs exactly
\* one snapshot per coarse time bin that received a non-trade update, in
\* first-seen order, and each snapshot equals the running coarse book as it
\* stood after the last update mapped to that time bin, with zero-size
\* entries removed.
C30_SnapshotPerBin ==
    (Rebinning /\ st.done) =>
        /\ [k \in 1..Len(st.ob_across_time) |-> st.ob_across_time[k].time]
              = TimeBins(Len(arg.ups))
        /\ \A k \in 1..Len(st.ob_across_time) :
              st.ob_across_time[k].ob = clean(BookAfterLast(st.ob_across_time[k].time))

\* the coarse time bins of the first n entries of seen, in first-seen order
RECURSIVE SeenBins(_)
SeenBins(n) ==
    IF n = 0 THEN <<>>
    ELSE LET rest == SeenBins(n - 1)
         IN IF \E k \in 1..Len(rest) : rest[k] = st.seen[n].time
            THEN rest
            ELSE Append(rest, st.seen[n].time)

\* C30: for updates sorted by ts, RebinnedOrderbook::from outputs exactly
\* one snapshot per coarse time bin that received a non-trade update which
\* maps to a price bin as well, in first-seen order, and each snapshot
\* equals the running coarse book as it stood after the last such update of
\* that time bin, with zero-size entries removed.
C30_SnapshotPerReachedBin ==
    (Rebinning /\ st.done) =>
        /\ [k \in 1..Len(st.ob_across_time) |-> st.ob_across_time[k].time]
              = SeenBins(Len(st.seen))
        /\ \A k \in 1..Len(st.ob_across_time) :
              st.ob_across_time[k].ob = clean(BookAfterLast(st.ob_across_time[k].time))

\* two snapshots in two time bins, the second of which holds what the first
\* update left and has lost the cell the second update took to zero
C30_Witness ==
    /\ Rebinning /\ st.done
    /\ Len(st.ob_across_time) = 2 /\ Len(st.seen) = 2
    /\ st.ob_across_time[1].time < st.ob_across_time[2].time
    /\ st.seen[1].after > 0 /\ st.seen[2].after = 0
    /\ st.seen[2].price # st.seen[1].price
    /\ st.ob_across_time[2].ob = st.ob_across_time[1].ob

\* the reads the latest Cxn::cmd made, by the stream's script: the success
\* byte, then the batch, or the length prefix and then the body
ReadsBatch == arg.io.byte = "0x01" /\ BinaryGet(arg.command)
ReadsSize == arg.io.byte # "fails" /\ ~ReadsBatch
ReadsBody == ReadsSize /\ arg.io.size = "ok"

\* an I/O operation of the latest call failed on the stream
StreamFailed ==
    \/ arg.io.write = "fails"
    \/ arg.io.byte = "fails"
    \/ (ReadsBatch /\ arg.io.batch = "fails")
    \/ (ReadsSize /\ arg.io.size = "fails")
    \/ (ReadsBody /\ arg.io.body # "ok")

\* C21: every stream-level I/O failure during Cxn::cmd (failure to write the
\* command, to read the success byte, the length prefix, the body or the
\* batch) results in cmd returning Err(ConnectionError).
C21_IoFailureIsConnectionError ==
    (st.fn = "Cxn" /\ st.done /\ StreamFailed)
        => st.ret.kind = "ConnectionError"

\* the branch of the range scan that follows the three handled cases
Uncovered == ret.kind = "Panic" /\ ret.err = "Should have covered all the cases."

\* the branch the if-chain of range takes for a window and the reference
\* timestamps of two consecutive batches, in any order
CaseOf(min_ts, max_ts, current_ref_ts, next_ref_ts) ==
    IF min_ts <= current_ref_ts /\ max_ts <= current_ref_ts THEN "stop"
    ELSE IF InRangeCase(min_ts, max_ts, current_ref_ts, next_ref_ts)
    THEN "materialize"
    ELSE IF min_ts >= next_ref_ts THEN "skip"
    ELSE "panic"

\* C32: for every min_ts <= max_ts and every pair of current and next batch
\* reference timestamps read from a file, the case analysis of the range scan
\* selects one of the three handled cases (stop, materialize the batch, skip
\* the batch): the scan never reaches the "Should have covered all the cases"
\* panic.
C32_CasesCovered ==
    /\ (op.name = "range" /\ op.min_ts <= op.max_ts) => ~Uncovered
    /\ \A min_ts, max_ts, current_ref_ts, next_ref_ts \in RangeVals :
          min_ts <= max_ts
            => CaseOf(min_ts, max_ts, current_ref_ts, next_ref_ts) # "panic"

\* a scan whose window lies strictly inside the first of two batches
C32_Witness ==
    /\ op.name = "range" /\ ret.kind = "Ok"
    /\ Len(Headers) >= 2
    /\ Headers[1].ref_ts < op.min_ts
    /\ op.min_ts <= op.max_ts
    /\ op.max_ts < Headers[2].ref_ts

\* C33: the lower bound of a range scan is inclusive across batch
\* boundaries: for a <= b, a record with ts = a that is stored in a batch
\* whose successor batch has ref_ts = a is returned by range(a, b).
C33_LowerInclusiveAcrossBatches ==
    (op.name = "range" /\ op.min_ts <= op.max_ts /\ Encoded)
        => LET hs == Headers
               recs == Records(file)
           IN /\ ret.kind = "Ok"
              /\ \A j \in 1..(Len(hs) - 1) :
                    hs[j + 1].ref_ts = op.min_ts
                      => \A k \in hs[j].first..(hs[j].first + hs[j].count - 1) :
                            recs[k].ts = op.min_ts
                              => \E i \in 1..Len(ret.ups) : ret.ups[i] = recs[k]

\* encode of a non-empty vector in any order did not panic, and decode of
\* the file returns the vector as it was given
RoundTripAnyOrder ==
    (op.name = "encode" /\ Encoded)
        => (ret.kind = "Ok" /\ Records(file) = enc.ups)

\* C34: for any non-empty input sequence, sorted or not, write_batches never
\* calls serialize_to_buffer with ref_seq > seq or ref_ts > ts, and decoding
\* the written bytes returns the input sequence unchanged in its original
\* order.
C34_AnyOrderRoundTrip ==
    (st.fn = "write_batches" /\ st.done)
        => (/\ st.kind = "Ok"
            /\ ReadTop(st.out) = arg.ups)

\* the same for the builds in which an overflowing sum wraps
WrappingRoundTrip ==
    (st.fn = "write_batches" /\ st.done /\ ~arg.checked)
        => (/\ st.kind = "Ok"
            /\ ReadTop(st.out) = arg.ups)

\* C35: after any interleaved sequence of push, pop and clear on a
\* CircularQueue, insertion_index <= len() holds, so iter never splits the
\* buffer out of bounds (it does not panic) and yields exactly len() elements.
C35_CursorWithinLen ==
    /\ queue.insertion_index <= Len(queue.data)
    /\ qret.call = "iter"
         => (qret.kind = "Items" /\ Len(qret.val) = Len(queue.data))

\* C36: every pop that returns Some(x) removes x from the CircularQueue:
\* len() decreases by exactly one and x is no longer yielded by iter
\* afterwards, in the underfull and in the saturated state alike.
C36_PopRemoves ==
    [][(qret'.call = "pop" /\ calls' # calls /\ qret'.kind = "Some")
          => (/\ len(queue') = len(queue) - 1
              /\ qret'.val[1] \notin Elements(iter(queue').val))]_vars

\* C37: after every CxnPool::cmd or CxnPool::insert call returns, with Ok or
\* with any error, every index of the pool's connection vector is present in
\* available_workers exactly once: no worker index is leaked or duplicated.
C37_WorkersAllBack ==
    (pret.call \in {"cmd", "insert"})
        => \A n \in 0..(Len(pool.cxns) - 1) :
              Cardinality({ k \in 1..Len(pool.available_workers) :
                              pool.available_workers[k] = n }) = 1

\* the buffered inserts the latest call retried without all of their command
\* strings being accepted
FailedRetries ==
    { i \in 1..Len(pret.retried) :
        \E k \in 1..Len(pret.sent) :
            /\ pret.sent[k].text.kind = "INSERT"
            /\ pret.sent[k].text.id = pret.retried[i].id
            /\ pret.sent[k].res # "Ok" }

\* C38: CxnPool::insert(cmd) returns Ok(()) if and only if every command
\* string of cmd itself was accepted by the server; the failure of a
\* buffered insert that is retried afterwards does not turn the caller's
\* successful insert into an error, and does not cause that buffered insert
\* to be lost.
C38_OkIffOwnAccepted ==
    (pret.call = "insert" /\ pret.res # "Unfinished")
        => (/\ pret.res = "Ok" <=> OwnAccepted
            /\ \A i \in FailedRetries :
                  \E k \in 1..Len(pool.held) : pool.held[k] = pret.retried[i])

\* C39: when the calls to a CxnPool created with n >= 1 workers do not
\* overlap, the pool never opens an additional connection: the connection
\* vector has after every cmd and insert call, failed ones included, the
\* length the call found.
C39_PoolKeepsSize ==
    (pret.call \in {"cmd", "insert"})
        => Len(pool.cxns) = Len(pret.found.cxns)

\* C40: for every non-empty update slice sorted by ts, Histogram::from
\* computes min_ts = fill_digits(first.ts) / 1000 and
\* max_ts = fill_digits(last.ts) / 1000 with min_ts <= max_ts, so the
\* unsigned subtraction max_ts - min_ts in new_boundaries never underflows.
C40_FillDigitsKeepsOrder ==
    (st.fn = "Histogram::from" /\ st.done)
        => (st.min_ts <= st.max_ts /\ st.kind = "Ok")

\* the threads that are between BUF.lock() and their return
InCall == { t \in 1..Threads : st.th[t].pc \in {"peek", "loop"} }

\* C31: when two threads call write_batches concurrently, the shared
\* scratch buffer is used by one call at a time for the whole call: the
\* calls are serialized by the mutex, and each call's output equals what the
\* same call produces when it runs alone.
C31_CallsSerialized ==
    st.fn = "threads"
        => /\ Cardinality(InCall) <= 1
           /\ \A t \in InCall : st.BUF.owner = t
           /\ \A t \in 1..Threads :
                 /\ st.th[t].pc = "done"
                      => /\ ~write_batches(arg[t]).panic
                         /\ st.th[t].out = write_batches(arg[t]).out
                 /\ st.th[t].pc = "panicked" => write_batches(arg[t]).panic

\* the same for the calls made while no call has panicked
UnpoisonedCallsSerialized ==
    (st.fn = "threads" /\ ~st.BUF.poisoned)
        => /\ Cardinality(InCall) <= 1
           /\ \A t \in 1..Threads :
                 st.th[t].pc = "done"
                    => st.th[t].out = write_batches(arg[t]).out

====
